---------------------------- MODULE Spec2Model ----------------------------
(***************************************************************************)
(* newsfetcher: the POST /api/fetch aggregation (routers/news.py), the     *)
(* per-source collector (services/crawler_service.py) and the batch        *)
(* normalization with retry and backoff (services/mistral_service.py).     *)
(*                                                                         *)
(* Python strings are sequences of one-character strings.  A dynamically   *)
(* typed Python value (a JSON value of the model's reply, an Optional      *)
(* field) is a record [t, s, n]: t its type, s its characters when it is   *)
(* a str, n its number when it is an int or the length of a list.          *)
(***************************************************************************)
EXTENDS Integers, Sequences, FiniteSets, TLC

(***************************************************************************)
(* Bounds of the model.                                                    *)
(***************************************************************************)
\* article links one source's site can list (first page and pagination)
MaxLinks == 1
\* the positive limit a request asks for
MaxLimit == 1

(***************************************************************************)
(* Strings.                                                                *)
(***************************************************************************)
\* the printable ASCII characters but the double quote, the backslash and
\* the backtick, in ASCII order
AsciiOrder ==
    << " ", "!", "#", "$", "%", "&", "'", "(", ")", "*", "+", ",", "-",
       ".", "/", "0", "1", "2", "3", "4", "5", "6", "7", "8", "9", ":",
       ";", "<", "=", ">", "?", "@", "A", "B", "C", "D", "E", "F", "G",
       "H", "I", "J", "K", "L", "M", "N", "O", "P", "Q", "R", "S", "T",
       "U", "V", "W", "X", "Y", "Z", "[", "]", "^", "_", "a", "b",
       "c", "d", "e", "f", "g", "h", "i", "j", "k", "l", "m", "n", "o",
       "p", "q", "r", "s", "t", "u", "v", "w", "x", "y", "z", "{", "|",
       "}", "~" >>

\* ord(c), up to an order-preserving renumbering
Code(c) == CHOOSE i \in 1..Len(AsciiOrder) : AsciiOrder[i] = c

Digits == {"0", "1", "2", "3", "4", "5", "6", "7", "8", "9"}

\* the digit of j, 0 <= j <= 9
DigitChar(j) == << "0", "1", "2", "3", "4", "5", "6", "7", "8", "9" >>[j + 1]

\* c * n
Rep(c, n) == [i \in 1..n |-> c]

Min(a, b) == IF a <= b THEN a ELSE b
Max(a, b) == IF a >= b THEN a ELSE b

\* s[:k] for k >= 0
Prefix(s, k) == SubSeq(s, 1, Min(k, Len(s)))

\* s[:-1]: all but the last element
ButLast(s) == SubSeq(s, 1, Len(s) - 1)

\* str.strip(): leading and trailing whitespace removed
Strip(s) ==
    LET solid == {i \in 1..Len(s) : s[i] # " "}
    IN  IF solid = {} THEN << >>
        ELSE LET lo == CHOOSE i \in solid : \A j \in solid : i <= j
                 hi == CHOOSE i \in solid : \A j \in solid : j <= i
             IN  SubSeq(s, lo, hi)

\* str.lower()
Lower(s) ==
    LET up == << "A", "E", "I", "L", "M", "R", "T" >>
        lo == << "a", "e", "i", "l", "m", "r", "t" >>
        low(c) == IF \E k \in 1..Len(up) : up[k] = c
                  THEN lo[CHOOSE k \in 1..Len(up) : up[k] = c]
                  ELSE c
    IN  [i \in 1..Len(s) |-> low(s[i])]

\* sub in s
Contains(s, sub) ==
    \E i \in 1..(Len(s) - Len(sub) + 1) : SubSeq(s, i, i + Len(sub) - 1) = sub

\* a <= b on str: Python compares code point by code point, a proper
\* prefix being the smaller
StrLE(a, b) ==
    LET n == Min(Len(a), Len(b))
        diff == {i \in 1..n : a[i] # b[i]}
    IN  IF diff = {} THEN Len(a) <= Len(b)
        ELSE LET m == CHOOSE i \in diff : \A j \in diff : i <= j
             IN  Code(a[m]) < Code(b[m])

(***************************************************************************)
(* Python values.                                                          *)
(***************************************************************************)
PyNone == [t |-> "null", s |-> << >>, n |-> 0]
PyStr(s) == [t |-> "str", s |-> s, n |-> 0]
PyInt(n) == [t |-> "int", s |-> << >>, n |-> n]
\* a list of n elements
PyList(n) == [t |-> "list", s |-> << >>, n |-> n]

\* bool(v)
Truthy(v) ==
    CASE v.t = "null" -> FALSE
      [] v.t = "str"  -> v.s # << >>
      [] v.t = "int"  -> v.n # 0
      [] v.t = "list" -> v.n # 0

\* a or b
Or(a, b) == IF Truthy(a) THEN a ELSE b

(***************************************************************************)
(* core/categories.py: the sources and the categories.                     *)
(***************************************************************************)
SourceNames == {"kun.uz", "gazeta.uz", "spot.uz", "zamon.uz", "uzdaily.uz", "afisha.uz"}

\* SOURCES: the pagination strategy of each source and its parameters
SOURCES ==
       "kun.uz" :> [pagination_type |-> "button",
          pagination_buttons |-> << "Ko'proq yangiliklar" >>,
          pagination_param |-> PyNone]
    @@ "gazeta.uz" :> [pagination_type |-> "url",
          pagination_buttons |-> <<  >>,
          pagination_param |-> PyStr(<< "p", "a", "g", "e" >>)]
    @@ "spot.uz" :> [pagination_type |-> "button",
          pagination_buttons |-> << "Ko'proq yangiliklarni yuklash" >>,
          pagination_param |-> PyNone]
    @@ "zamon.uz" :> [pagination_type |-> "url",
          pagination_buttons |-> <<  >>,
          pagination_param |-> PyStr(<< "p", "a", "g", "e" >>)]
    @@ "uzdaily.uz" :> [pagination_type |-> "url",
          pagination_buttons |-> <<  >>,
          pagination_param |-> PyStr(<< "p", "a", "g", "e" >>)]
    @@ "afisha.uz" :> [pagination_type |-> "button",
          pagination_buttons |-> << "Ko'proq ko'rish" >>,
          pagination_param |-> PyNone]

\* CATEGORY_MAPPING: the (source_name, url) pairs of each category, in order
CATEGORY_MAPPING ==
       "global" :> <<
          \* https://kun.uz/news/category/jahon
          << "kun.uz",
             << "h","t","t","p","s",":","/","/","k","u","n",".","u","z","/","n","e","w","s","/","c","a","t","e","g","o","r","y","/","j","a","h","o","n" >> >>,
          \* https://www.gazeta.uz/oz/politics/?page=1
          << "gazeta.uz",
             << "h","t","t","p","s",":","/","/","w","w","w",".","g","a","z","e","t","a",".","u","z","/","o","z","/","p","o","l","i","t","i","c","s","/","?","p","a","g","e","=","1" >> >>,
          \* https://www.spot.uz/oz/person/
          << "spot.uz",
             << "h","t","t","p","s",":","/","/","w","w","w",".","s","p","o","t",".","u","z","/","o","z","/","p","e","r","s","o","n","/" >> >>,
          \* https://zamon.uz/categories/world?page=1
          << "zamon.uz",
             << "h","t","t","p","s",":","/","/","z","a","m","o","n",".","u","z","/","c","a","t","e","g","o","r","i","e","s","/","w","o","r","l","d","?","p","a","g","e","=","1" >> >>,
          \* https://www.uzdaily.uz/uz/section/1/?page=1
          << "uzdaily.uz",
             << "h","t","t","p","s",":","/","/","w","w","w",".","u","z","d","a","i","l","y",".","u","z","/","u","z","/","s","e","c","t","i","o","n","/","1","/","?","p","a","g","e","=","1" >> >>,
          \* https://www.afisha.uz/uz/gorod
          << "afisha.uz",
             << "h","t","t","p","s",":","/","/","w","w","w",".","a","f","i","s","h","a",".","u","z","/","u","z","/","g","o","r","o","d" >> >> >>
    @@ "business" :> <<
          \* https://kun.uz/news/category/iqtisodiyot
          << "kun.uz",
             << "h","t","t","p","s",":","/","/","k","u","n",".","u","z","/","n","e","w","s","/","c","a","t","e","g","o","r","y","/","i","q","t","i","s","o","d","i","y","o","t" >> >>,
          \* https://www.gazeta.uz/oz/economy/?page=1
          << "gazeta.uz",
             << "h","t","t","p","s",":","/","/","w","w","w",".","g","a","z","e","t","a",".","u","z","/","o","z","/","e","c","o","n","o","m","y","/","?","p","a","g","e","=","1" >> >>,
          \* https://www.spot.uz/oz/business/
          << "spot.uz",
             << "h","t","t","p","s",":","/","/","w","w","w",".","s","p","o","t",".","u","z","/","o","z","/","b","u","s","i","n","e","s","s","/" >> >>,
          \* https://www.uzdaily.uz/uz/section/2/?page=1
          << "uzdaily.uz",
             << "h","t","t","p","s",":","/","/","w","w","w",".","u","z","d","a","i","l","y",".","u","z","/","u","z","/","s","e","c","t","i","o","n","/","2","/","?","p","a","g","e","=","1" >> >>,
          \* https://www.afisha.uz/uz/shops
          << "afisha.uz",
             << "h","t","t","p","s",":","/","/","w","w","w",".","a","f","i","s","h","a",".","u","z","/","u","z","/","s","h","o","p","s" >> >> >>
    @@ "sport" :> <<
          \* https://kun.uz/news/category/sport
          << "kun.uz",
             << "h","t","t","p","s",":","/","/","k","u","n",".","u","z","/","n","e","w","s","/","c","a","t","e","g","o","r","y","/","s","p","o","r","t" >> >>,
          \* https://www.gazeta.uz/oz/sport/?page=1
          << "gazeta.uz",
             << "h","t","t","p","s",":","/","/","w","w","w",".","g","a","z","e","t","a",".","u","z","/","o","z","/","s","p","o","r","t","/","?","p","a","g","e","=","1" >> >>,
          \* https://zamon.uz/categories/sport?page=1
          << "zamon.uz",
             << "h","t","t","p","s",":","/","/","z","a","m","o","n",".","u","z","/","c","a","t","e","g","o","r","i","e","s","/","s","p","o","r","t","?","p","a","g","e","=","1" >> >>,
          \* https://www.uzdaily.uz/uz/section/7/?page=1
          << "uzdaily.uz",
             << "h","t","t","p","s",":","/","/","w","w","w",".","u","z","d","a","i","l","y",".","u","z","/","u","z","/","s","e","c","t","i","o","n","/","7","/","?","p","a","g","e","=","1" >> >>,
          \* https://www.afisha.uz/uz/sport
          << "afisha.uz",
             << "h","t","t","p","s",":","/","/","w","w","w",".","a","f","i","s","h","a",".","u","z","/","u","z","/","s","p","o","r","t" >> >> >>
    @@ "technology" :> <<
          \* https://kun.uz/news/category/texnologiya
          << "kun.uz",
             << "h","t","t","p","s",":","/","/","k","u","n",".","u","z","/","n","e","w","s","/","c","a","t","e","g","o","r","y","/","t","e","x","n","o","l","o","g","i","y","a" >> >>,
          \* https://www.spot.uz/oz/technology/
          << "spot.uz",
             << "h","t","t","p","s",":","/","/","w","w","w",".","s","p","o","t",".","u","z","/","o","z","/","t","e","c","h","n","o","l","o","g","y","/" >> >>,
          \* https://www.uzdaily.uz/uz/section/4/?page=1
          << "uzdaily.uz",
             << "h","t","t","p","s",":","/","/","w","w","w",".","u","z","d","a","i","l","y",".","u","z","/","u","z","/","s","e","c","t","i","o","n","/","4","/","?","p","a","g","e","=","1" >> >>,
          \* https://www.afisha.uz/uz/techno
          << "afisha.uz",
             << "h","t","t","p","s",":","/","/","w","w","w",".","a","f","i","s","h","a",".","u","z","/","u","z","/","t","e","c","h","n","o" >> >> >>
    @@ "health" :> <<
          \* https://kun.uz/news/category/soglom-hayot
          << "kun.uz",
             << "h","t","t","p","s",":","/","/","k","u","n",".","u","z","/","n","e","w","s","/","c","a","t","e","g","o","r","y","/","s","o","g","l","o","m","-","h","a","y","o","t" >> >>,
          \* https://zamon.uz/categories/medicine?page=1
          << "zamon.uz",
             << "h","t","t","p","s",":","/","/","z","a","m","o","n",".","u","z","/","c","a","t","e","g","o","r","i","e","s","/","m","e","d","i","c","i","n","e","?","p","a","g","e","=","1" >> >> >>
    @@ "entertainment" :> <<
          \* https://kun.uz/news/category/turizm
          << "kun.uz",
             << "h","t","t","p","s",":","/","/","k","u","n",".","u","z","/","n","e","w","s","/","c","a","t","e","g","o","r","y","/","t","u","r","i","z","m" >> >>,
          \* https://www.gazeta.uz/oz/culture/?page=1
          << "gazeta.uz",
             << "h","t","t","p","s",":","/","/","w","w","w",".","g","a","z","e","t","a",".","u","z","/","o","z","/","c","u","l","t","u","r","e","/","?","p","a","g","e","=","1" >> >>,
          \* https://www.spot.uz/oz/marketing/
          << "spot.uz",
             << "h","t","t","p","s",":","/","/","w","w","w",".","s","p","o","t",".","u","z","/","o","z","/","m","a","r","k","e","t","i","n","g","/" >> >>,
          \* https://zamon.uz/categories/lifestyle?page=1
          << "zamon.uz",
             << "h","t","t","p","s",":","/","/","z","a","m","o","n",".","u","z","/","c","a","t","e","g","o","r","i","e","s","/","l","i","f","e","s","t","y","l","e","?","p","a","g","e","=","1" >> >>,
          \* https://www.afisha.uz/uz/children
          << "afisha.uz",
             << "h","t","t","p","s",":","/","/","w","w","w",".","a","f","i","s","h","a",".","u","z","/","u","z","/","c","h","i","l","d","r","e","n" >> >> >>
    @@ "science" :> <<
          \* https://kun.uz/news/category/talim
          << "kun.uz",
             << "h","t","t","p","s",":","/","/","k","u","n",".","u","z","/","n","e","w","s","/","c","a","t","e","g","o","r","y","/","t","a","l","i","m" >> >>,
          \* https://www.afisha.uz/uz/znaniya
          << "afisha.uz",
             << "h","t","t","p","s",":","/","/","w","w","w",".","a","f","i","s","h","a",".","u","z","/","u","z","/","z","n","a","n","i","y","a" >> >> >>
    @@ "education" :> <<
          \* https://www.spot.uz/oz/education/
          << "spot.uz",
             << "h","t","t","p","s",":","/","/","w","w","w",".","s","p","o","t",".","u","z","/","o","z","/","e","d","u","c","a","t","i","o","n","/" >> >> >>

\* get_categories(): the configured categories, in the order of the mapping
get_categories ==
    << "global", "business", "sport", "technology", "health", "entertainment", "science", "education" >>

\* a lookup that falls back to a configured category instead of []
get_sources_for_category_fallback(category) ==
    IF category \in DOMAIN CATEGORY_MAPPING THEN CATEGORY_MAPPING[category]
    ELSE CATEGORY_MAPPING["health"]

\* get_sources_for_category(category): CATEGORY_MAPPING.get(category, [])
get_sources_for_category(category) ==
    IF category \in DOMAIN CATEGORY_MAPPING THEN CATEGORY_MAPPING[category]
    ELSE << >>

\* get_pagination_buttons(source_name)
get_pagination_buttons(source_name) ==
    IF source_name \in DOMAIN SOURCES
    THEN SOURCES[source_name].pagination_buttons ELSE << >>

\* get_pagination_type(source_name): "url", "button" or "" for None
get_pagination_type(source_name) ==
    IF source_name \in DOMAIN SOURCES
    THEN SOURCES[source_name].pagination_type ELSE ""

\* get_pagination_param(source_name)
get_pagination_param(source_name) ==
    IF source_name \in DOMAIN SOURCES
    THEN SOURCES[source_name].pagination_param ELSE PyNone

(***************************************************************************)
(* core/settings.py.                                                       *)
(***************************************************************************)
\* Settings.default_limit
default_limit == 50

\* date.today().isoformat() of the run: 2025-01-27
Today == << "2", "0", "2", "5", "-", "0", "1", "-", "2", "7" >>
\* (date.today() - timedelta(days=7)).isoformat(): 2025-01-20
WeekAgo == << "2", "0", "2", "5", "-", "0", "1", "-", "2", "0" >>

\* Settings(): default_date_from and default_date_to are unset
settings ==
    [default_limit |-> default_limit,
     default_date_from |-> PyNone,
     default_date_to |-> PyNone]

get_default_date_from ==
    IF Truthy(settings.default_date_from) THEN settings.default_date_from.s
    ELSE WeekAgo

get_default_date_to ==
    IF Truthy(settings.default_date_to) THEN settings.default_date_to.s
    ELSE Today

(***************************************************************************)
(* services/mistral_service.py: the pure part of the normalization.        *)
(*                                                                         *)
(* The text the model returns is a sequence of tokens: whitespace, a       *)
(* Markdown fence with or without the json tag, a JSON document, or a word *)
(* that is no JSON.  A JSON document is an object with the four fields of  *)
(* the prompt (t = "absent" for a missing key) or an array.                *)
(***************************************************************************)
Absent == [t |-> "absent", s |-> << >>, n |-> 0]

NoDoc == [kind |-> "none", title |-> Absent, content |-> Absent,
          date_of_publication |-> Absent, language |-> Absent]

Obj(title, content, date, language) ==
    [kind |-> "object", title |-> title, content |-> content,
     date_of_publication |-> date, language |-> language]

Arr == [NoDoc EXCEPT !.kind = "array"]

Ws == [k |-> "ws", doc |-> NoDoc]
FenceJson == [k |-> "fence_json", doc |-> NoDoc]
Fence == [k |-> "fence", doc |-> NoDoc]
Word == [k |-> "word", doc |-> NoDoc]
Json(doc) == [k |-> "doc", doc |-> doc]

\* str.strip() on a token sequence
StripWs(text) ==
    LET solid == {i \in 1..Len(text) : text[i].k # "ws"}
    IN  IF solid = {} THEN << >>
        ELSE LET lo == CHOOSE i \in solid : \A j \in solid : i <= j
                 hi == CHOOSE i \in solid : \A j \in solid : j <= i
             IN  SubSeq(text, lo, hi)

\* dict.get(key): None for a missing key
Get(v) == IF v.t = "absent" THEN PyNone ELSE v

\* dict.get(key, default)
GetOr(v, default) == IF v.t = "absent" THEN default ELSE v

\* the dict of a parsed reply, and the placeholder where there is none
NoParsed == [title |-> PyNone, content |-> PyNone,
             date_of_publication |-> PyNone, language |-> PyNone]

\* the 3-character ellipsis marker "..."
Ellipsis == << ".", ".", "." >>

\* the defaults "unknown" and ""
Unknown == << "u", "n", "k", "n", "o", "w", "n" >>

\* the limits of extract_article_with_mistral and _parse_mistral_response
MinRawText == 100
MinContent == 50
MaxContent == 1500
KeptContent == 1497

\* if text.startswith("```json"): text = text[7:]
CutFenceJson(text) ==
    IF text # << >> /\ text[1].k = "fence_json" THEN Tail(text) ELSE text

\* if text.startswith("```"): text = text[3:]; cutting the three backticks
\* off a tagged fence leaves the word json
CutFence(text) ==
    IF text # << >> /\ text[1].k = "fence" THEN Tail(text)
    ELSE IF text # << >> /\ text[1].k = "fence_json"
         THEN << Word >> \o Tail(text)
         ELSE text

\* if text.endswith("```"): text = text[:-3]
CutFenceEnd(text) ==
    IF text # << >> /\ text[Len(text)].k = "fence" THEN ButLast(text) ELSE text

\* lines 143-150
Unfenced(response_text) ==
    StripWs(CutFenceEnd(CutFence(CutFenceJson(StripWs(response_text)))))

ParsedNone == [ex |-> "", isNone |-> TRUE, d |-> NoParsed]

\* lines 154-165, data the value json.loads returned
FromData(data) ==
    IF data.kind # "object"
    THEN [ParsedNone EXCEPT !.ex = "AttributeError"]       \* data.get
    ELSE IF ~Truthy(Get(data.title)) \/ ~Truthy(Get(data.content))
    THEN ParsedNone
    ELSE IF data.content.t # "str"
    THEN [ParsedNone EXCEPT !.ex = "AttributeError"]       \* .strip()
    ELSE IF Len(Strip(data.content.s)) < MinContent
    THEN ParsedNone
    ELSE [ex |-> "", isNone |-> FALSE,
          d |-> [title |-> GetOr(data.title, PyStr(<< >>)),
                 content |-> GetOr(data.content, PyStr(<< >>)),
                 date_of_publication |-> Get(data.date_of_publication),
                 language |-> GetOr(data.language, PyStr(Unknown))]]

\* lines 152-167: json.loads takes exactly one JSON document
FromText(text) ==
    IF Len(text) = 1 /\ text[1].k = "doc" THEN FromData(text[1].doc)
    ELSE ParsedNone                                  \* json.JSONDecodeError

\* _parse_mistral_response(response_text): [ex, isNone, d].  ex names an
\* exception the function lets escape (it catches json.JSONDecodeError only).
_parse_mistral_response(response_text) ==
    IF response_text = << >> THEN ParsedNone
    ELSE FromText(Unfenced(response_text))

\* a search that takes the rightmost match
_extract_date_from_url_last(url) ==
    LET dig(i, n) == \A j \in i..(i + n - 1) : url[j] \in Digits
        at(i) == /\ i + 11 <= Len(url)
                 /\ url[i] = "/" /\ dig(i + 1, 4)
                 /\ url[i + 5] = "/" /\ dig(i + 6, 2)
                 /\ url[i + 8] = "/" /\ dig(i + 9, 2)
                 /\ url[i + 11] = "/"
        hits == {i \in 1..Len(url) : at(i)}
    IN  IF hits = {} THEN PyNone
        ELSE LET i == CHOOSE h \in hits : \A g \in hits : h >= g
             IN  PyStr(SubSeq(url, i + 1, i + 4) \o << "-" >>
                       \o SubSeq(url, i + 6, i + 7) \o << "-" >>
                       \o SubSeq(url, i + 9, i + 10))

\* re.search(r'/(\d{4})/(\d{2})/(\d{2})/', url): the leftmost match, as the
\* date "year-month-day", or None
_extract_date_from_url(url) ==
    LET dig(i, n) == \A j \in i..(i + n - 1) : url[j] \in Digits
        at(i) == /\ i + 11 <= Len(url)
                 /\ url[i] = "/" /\ dig(i + 1, 4)
                 /\ url[i + 5] = "/" /\ dig(i + 6, 2)
                 /\ url[i + 8] = "/" /\ dig(i + 9, 2)
                 /\ url[i + 11] = "/"
        hits == {i \in 1..Len(url) : at(i)}
    IN  IF hits = {} THEN PyNone
        ELSE LET i == CHOOSE h \in hits : \A g \in hits : h <= g
             IN  PyStr(SubSeq(url, i + 1, i + 4) \o << "-" >>
                       \o SubSeq(url, i + 6, i + 7) \o << "-" >>
                       \o SubSeq(url, i + 9, i + 10))

\* a cut that keeps 1500 characters before the marker
TruncateContentLate(content) ==
    IF Len(content) > MaxContent THEN Prefix(content, MaxContent) \o Ellipsis
    ELSE content

\* the cut of lines 114-115: content[:1497] + "..." when it is longer than 1500
TruncateContent(content) ==
    IF Len(content) > MaxContent THEN Prefix(content, KeptContent) \o Ellipsis
    ELSE content

\* a normalized article, and the placeholder where there is none
NoArticle ==
    [title |-> PyNone, content |-> PyNone, date_of_publication |-> PyNone,
     language |-> PyNone, category |-> "", source_url |-> << >>,
     source_name |-> "", image_url |-> PyNone]

\* lines 106-126 of extract_article_with_mistral, p what
\* _parse_mistral_response returned: [isNone, d, ex], ex the exception the
\* handler (except Exception: return None) caught
Normalized(p, category, source_url, source_name, image_url) ==
    IF p.ex # "" \/ p.isNone
    THEN [isNone |-> TRUE, d |-> NoArticle, ex |-> p.ex]
    ELSE [isNone |-> FALSE, ex |-> "",
          d |-> [title |-> p.d.title,
                 content |-> PyStr(TruncateContent(p.d.content.s)),
                 date_of_publication |->
                     IF ~Truthy(p.d.date_of_publication)
                     THEN _extract_date_from_url(source_url)
                     ELSE p.d.date_of_publication,
                 language |-> p.d.language,
                 category |-> category,
                 source_url |-> source_url,
                 source_name |-> source_name,
                 image_url |-> image_url]]

\* extract_article_with_mistral once the call has returned `response`
extract_article_with_mistral(response, category, source_url, source_name, image_url) ==
    Normalized(_parse_mistral_response(response), category, source_url,
               source_name, image_url)

(***************************************************************************)
(* services/crawler_service.py: URLs and the extraction of links.          *)
(*                                                                         *)
(* A fetched page is a record [hrefs, md]: the values of its href          *)
(* attributes and the targets of its Markdown links, in page order.        *)
(***************************************************************************)
LowerLetters ==
    { "a", "b", "c", "d", "e", "f", "g", "h", "i", "j", "k", "l", "m" }
    \cup { "n", "o", "p", "q", "r", "s", "t", "u", "v", "w", "x", "y", "z" }

UpperLetters ==
    { "A", "B", "C", "D", "E", "F", "G", "H", "I", "J", "K", "L", "M" }
    \cup { "N", "O", "P", "Q", "R", "S", "T", "U", "V", "W", "X", "Y", "Z" }

\* urllib.parse.scheme_chars
SchemeChars == LowerLetters \cup UpperLetters \cup Digits \cup {"+", "-", "."}

Range(seq) == {seq[j] : j \in 1..Len(seq)}

\* s.find(c) + 1: the first place of c in s, 0 when it has none
Find(s, c) ==
    LET hits == {j \in 1..Len(s) : s[j] = c}
    IN  IF hits = {} THEN 0 ELSE CHOOSE j \in hits : \A h \in hits : j <= h

\* s[j - 1:]
From(s, j) == SubSeq(s, j, Len(s))

\* s.split(c)[0]
SplitFirst(s, c) == IF Find(s, c) = 0 THEN s ELSE SubSeq(s, 1, Find(s, c) - 1)

\* s.partition(c)[2]
AfterFirst(s, c) == IF Find(s, c) = 0 THEN << >> ELSE From(s, Find(s, c) + 1)

\* s.startswith(prefix, pos - 1)
StartsAt(s, pos, prefix) ==
    /\ pos + Len(prefix) - 1 <= Len(s)
    /\ SubSeq(s, pos, pos + Len(prefix) - 1) = prefix

StartsWith(s, prefix) == StartsAt(s, 1, prefix)

\* urlsplit: the text has a scheme when what precedes its first colon
\* starts with a letter and holds scheme characters only
HasScheme(url) ==
    /\ Find(url, ":") > 1
    /\ url[1] \in LowerLetters \cup UpperLetters
    /\ \A j \in 1..(Find(url, ":") - 1) : url[j] \in SchemeChars

\* urlsplit: query and fragment of what follows the authority
SplitRest(scheme, netloc, rest) ==
    [scheme |-> scheme, netloc |-> netloc,
     path |-> SplitFirst(SplitFirst(rest, "#"), "?"),
     query |-> AfterFirst(SplitFirst(rest, "#"), "?"),
     fragment |-> AfterFirst(rest, "#")]

\* where the authority ends in the text after "//"
NetlocEnd(body) ==
    LET ends == {j \in 1..Len(body) : body[j] \in {"/", "?", "#"}}
    IN  IF ends = {} THEN Len(body) + 1
        ELSE CHOOSE j \in ends : \A h \in ends : j <= h

\* urlsplit: the authority is what follows "//" up to the first / ? or #
SplitNetloc(scheme, rest) ==
    IF StartsWith(rest, << "/", "/" >>)
    THEN SplitRest(scheme, SubSeq(rest, 3, NetlocEnd(From(rest, 3)) + 1),
                   From(rest, NetlocEnd(From(rest, 3)) + 2))
    ELSE SplitRest(scheme, << >>, rest)

\* urlparse(url): [scheme, netloc, path, query, fragment]
urlparse(url) ==
    IF HasScheme(url)
    THEN SplitNetloc(Lower(SubSeq(url, 1, Find(url, ":") - 1)),
                     From(url, Find(url, ":") + 1))
    ELSE SplitNetloc(<< >>, url)

\* the pieces of an article pattern
Lit(s) == [k |-> "lit", s |-> s, n |-> 0, set |-> {}]
Opt(s) == [k |-> "opt", s |-> s, n |-> 0, set |-> {}]
DigitRun(n) == [k |-> "digits", s |-> << >>, n |-> n, set |-> {}]
AnyRun == [k |-> "any+", s |-> << >>, n |-> 0, set |-> {}]
NoSlashRun == [k |-> "noslash+", s |-> << >>, n |-> 0, set |-> {}]
LowerAlnum == [k |-> "alnum", s |-> << >>, n |-> 0, set |-> {}]
NotAhead(set) == [k |-> "not", s |-> << >>, n |-> 0, set |-> set]
AtEnd == [k |-> "end", s |-> << >>, n |-> 0, set |-> {}]

Http == << "h", "t", "t", "p" >>
Www == << "w", "w", "w", "." >>
Dated == << DigitRun(4), Lit(<< "/" >>), DigitRun(2), Lit(<< "/" >>), DigitRun(2), Lit(<< "/" >>) >>
HttpS == << Lit(Http), Opt(<< "s" >>), Lit(<< ":", "/", "/" >>) >>

\* SOURCES[source_name]["article_pattern"]
ArticlePatterns ==
       "kun.uz" :> HttpS \o << Lit(<< "k", "u", "n", ".", "u", "z", "/", "n", "e", "w", "s", "/" >>) >> \o Dated \o << AnyRun >>
    @@ "gazeta.uz" :> HttpS \o << Opt(Www), Lit(<< "g", "a", "z", "e", "t", "a", ".", "u", "z", "/", "o", "z", "/" >>) >> \o Dated \o << AnyRun >>
    @@ "spot.uz" :> HttpS \o << Opt(Www), Lit(<< "s", "p", "o", "t", ".", "u", "z", "/", "o", "z", "/" >>) >> \o Dated \o << AnyRun >>
    @@ "zamon.uz" :> HttpS \o << Lit(<< "z", "a", "m", "o", "n", ".", "u", "z", "/", "d", "e", "t", "a", "i", "l", "/" >>), AnyRun >>
    @@ "uzdaily.uz" :> HttpS \o << Opt(Www), Lit(<< "u", "z", "d", "a", "i", "l", "y", ".", "u", "z", "/", "u", "z", "/" >>),
                                  NotAhead({ << "s", "e", "c", "t", "i", "o", "n", "/" >>,
                                             << "f", "o", "o", "t", "e", "r", "/" >>,
                                             << "c", "u", "r", "r", "e", "n", "c", "y" >>,
                                             << "s", "e", "a", "r", "c", "h" >>,
                                             << "l", "a", "n", "g" >> }),
                                  LowerAlnum, NoSlashRun, Lit(<< "/" >>), AtEnd >>
    @@ "afisha.uz" :> HttpS \o << Opt(Www), Lit(<< "a", "f", "i", "s", "h", "a", ".", "u", "z", "/", "u", "z", "/" >>),
                                 NoSlashRun, Lit(<< "/" >>) >> \o Dated \o << AnyRun >>

\* get_article_pattern(source_name); << >> stands for None
get_article_pattern(source_name) ==
    IF source_name \in DOMAIN ArticlePatterns THEN ArticlePatterns[source_name] ELSE << >>

\* re.match: the pattern matches s from place pos on
RECURSIVE MatchAt(_, _, _)
MatchAt(pattern, s, pos) ==
    IF pattern = << >> THEN TRUE
    ELSE LET it == Head(pattern)
             rest == Tail(pattern)
         IN  CASE it.k = "lit" ->
                    StartsAt(s, pos, it.s) /\ MatchAt(rest, s, pos + Len(it.s))
               [] it.k = "opt" ->
                    \/ StartsAt(s, pos, it.s) /\ MatchAt(rest, s, pos + Len(it.s))
                    \/ MatchAt(rest, s, pos)
               [] it.k = "digits" ->
                    /\ pos + it.n - 1 <= Len(s)
                    /\ \A j \in pos..(pos + it.n - 1) : s[j] \in Digits
                    /\ MatchAt(rest, s, pos + it.n)
               [] it.k = "any+" ->
                    \E e \in pos..Len(s) : MatchAt(rest, s, e + 1)
               [] it.k = "noslash+" ->
                    \E e \in pos..Len(s) :
                        /\ \A j \in pos..e : s[j] # "/"
                        /\ MatchAt(rest, s, e + 1)
               [] it.k = "alnum" ->
                    /\ pos <= Len(s)
                    /\ s[pos] \in LowerLetters \cup Digits
                    /\ MatchAt(rest, s, pos + 1)
               [] it.k = "not" ->
                    /\ \A w \in it.set : ~StartsAt(s, pos, w)
                    /\ MatchAt(rest, s, pos)
               [] it.k = "end" -> pos = Len(s) + 1

\* _is_article_url(url, pattern)
_is_article_url(url, pattern) == MatchAt(pattern, url, 1)

HttpsPrefix == << "h", "t", "t", "p", "s", ":", "/", "/" >>

\* lines 61-69: the href cut at # and ?, a path made absolute on the base
\* domain; << >> for a link that is skipped
FirstPassUrl(href, base_domain) ==
    IF StartsWith(SplitFirst(SplitFirst(Strip(href), "#"), "?"), Http)
    THEN SplitFirst(SplitFirst(Strip(href), "#"), "?")
    ELSE IF StartsWith(SplitFirst(SplitFirst(Strip(href), "#"), "?"), << "/" >>)
    THEN HttpsPrefix \o base_domain \o SplitFirst(SplitFirst(Strip(href), "#"), "?")
    ELSE << >>

\* the same without the comparison of the domains
AcceptedAnyDomain(url, base_domain, article_pattern, links) ==
    /\ url # << >>
    /\ url \notin Range(links)
    /\ _is_article_url(url, article_pattern)

\* the same without the look into seen
AcceptedSeenOrNot(url, base_domain, article_pattern, links) ==
    /\ url # << >>
    /\ urlparse(url).netloc = base_domain
    /\ _is_article_url(url, article_pattern)

\* lines 71-79: the link is new, of the base domain and of the article shape
Accepted(url, base_domain, article_pattern, links) ==
    /\ url # << >>
    /\ url \notin Range(links)
    /\ urlparse(url).netloc = base_domain
    /\ _is_article_url(url, article_pattern)

\* lines 60-82
RECURSIVE HrefLoop(_, _, _, _)
HrefLoop(hrefs, base_domain, article_pattern, links) ==
    IF hrefs = << >> THEN links
    ELSE HrefLoop(Tail(hrefs), base_domain, article_pattern,
            IF Accepted(FirstPassUrl(Head(hrefs), base_domain), base_domain,
                        article_pattern, links)
            THEN Append(links, FirstPassUrl(Head(hrefs), base_domain))
            ELSE links)

\* lines 89-103: the Markdown links, which are absolute
RECURSIVE MarkdownLoop(_, _, _, _)
MarkdownLoop(targets, base_domain, article_pattern, links) ==
    IF targets = << >> THEN links
    ELSE MarkdownLoop(Tail(targets), base_domain, article_pattern,
            IF Accepted(SplitFirst(SplitFirst(Strip(Head(targets)), "#"), "?"),
                        base_domain, article_pattern, links)
            THEN Append(links, SplitFirst(SplitFirst(Strip(Head(targets)), "#"), "?"))
            ELSE links)

\* the same with the Markdown links scanned whatever the hrefs gave
OrMarkdownAlways(links, html, base_domain, article_pattern) ==
    MarkdownLoop(html.md, base_domain, article_pattern, links)

\* lines 84-105
OrMarkdown(links, html, base_domain, article_pattern) ==
    IF links # << >> THEN links
    ELSE MarkdownLoop(html.md, base_domain, article_pattern, << >>)

\* extract_article_links(html, base_url, article_pattern)
extract_article_links(html, base_url, article_pattern) ==
    OrMarkdown(HrefLoop(html.hrefs, urlparse(base_url).netloc, article_pattern, << >>),
               html, urlparse(base_url).netloc, article_pattern)

\* the hrefs the pattern of line 337 finds: http:// or https:// and more
Absolute(href) ==
    \/ StartsWith(href, Http \o << ":", "/", "/" >>) /\ Len(href) > 7
    \/ StartsWith(href, HttpsPrefix) /\ Len(href) > 8

\* _extract_links_from_html(html, base_domain, article_pattern): a set
_extract_links_from_html(html, base_domain, article_pattern) ==
    {url \in {SplitFirst(Strip(h), "#") : h \in {g \in Range(html.hrefs) : Absolute(g)}} :
        /\ urlparse(url).netloc = base_domain
        /\ _is_article_url(url, article_pattern)}

(***************************************************************************)
(* services/crawler_service.py: _build_paginated_url, with urllib's        *)
(* parse_qs, urlencode and urlunparse on printable ASCII text.             *)
(***************************************************************************)
\* ord(c)
Ord(c) ==
    Code(c) + 31 + (IF Code(c) >= 3 THEN 1 ELSE 0)
                 + (IF Code(c) >= 60 THEN 1 ELSE 0)
                 + (IF Code(c) >= 63 THEN 1 ELSE 0)

HexDigits == << "0", "1", "2", "3", "4", "5", "6", "7", "8", "9", "A", "B", "C", "D", "E", "F" >>
LowerHex == << "0", "1", "2", "3", "4", "5", "6", "7", "8", "9", "a", "b", "c", "d", "e", "f" >>

IsHex(c) == c \in Range(HexDigits) \cup Range(LowerHex)

\* int(c, 16)
HexValue(c) == (CHOOSE k \in 1..16 : HexDigits[k] = c \/ LowerHex[k] = c) - 1

\* the %XX escapes of the characters of AsciiOrder
Escaped(s) ==
    /\ Len(s) >= 3 /\ s[1] = "%" /\ IsHex(s[2]) /\ IsHex(s[3])
    /\ \E c \in Range(AsciiOrder) : Ord(c) = 16 * HexValue(s[2]) + HexValue(s[3])

\* unquote(s): every %XX replaced by its character
RECURSIVE unquote(_)
unquote(s) ==
    IF s = << >> THEN << >>
    ELSE IF Escaped(s)
    THEN << CHOOSE c \in Range(AsciiOrder) :
               Ord(c) = 16 * HexValue(s[2]) + HexValue(s[3]) >> \o unquote(From(s, 4))
    ELSE << Head(s) >> \o unquote(Tail(s))

\* s.replace('+', ' ')
PlusToSpace(s) == [j \in 1..Len(s) |-> IF s[j] = "+" THEN " " ELSE s[j]]

\* the characters quote_plus leaves as they are
Unreserved == LowerLetters \cup UpperLetters \cup Digits \cup {"_", ".", "-", "~"}

\* quote_plus(s): a blank becomes +, a reserved character its %XX
RECURSIVE quote_plus(_)
quote_plus(s) ==
    IF s = << >> THEN << >>
    ELSE (IF Head(s) \in Unreserved THEN << Head(s) >>
          ELSE IF Head(s) = " " THEN << "+" >>
          ELSE << "%", HexDigits[(Ord(Head(s)) \div 16) + 1],
                       HexDigits[(Ord(Head(s)) % 16) + 1] >>)
         \o quote_plus(Tail(s))

\* s.split(c)
RECURSIVE Split(_, _)
Split(s, c) ==
    IF Find(s, c) = 0 THEN << s >>
    ELSE << SplitFirst(s, c) >> \o Split(AfterFirst(s, c), c)

\* parse_qs keeps a dict in insertion order: a list of [name, values]
AddValue(params, name, value) ==
    IF \E k \in 1..Len(params) : params[k].name = name
    THEN [k \in 1..Len(params) |->
            IF params[k].name = name
            THEN [params[k] EXCEPT !.values = Append(@, value)]
            ELSE params[k]]
    ELSE Append(params, [name |-> name, values |-> << value >>])

\* parse_qsl's loop: a field with no value (keep_blank_values is False) is
\* left out; name and value are unquoted
RECURSIVE ParseFields(_, _)
ParseFields(fields, params) ==
    IF fields = << >> THEN params
    ELSE ParseFields(Tail(fields),
            IF AfterFirst(Head(fields), "=") = << >> THEN params
            ELSE AddValue(params,
                          unquote(PlusToSpace(SplitFirst(Head(fields), "="))),
                          unquote(PlusToSpace(AfterFirst(Head(fields), "=")))))

\* parse_qs(qs)
parse_qs(qs) == ParseFields(Split(qs, "&"), << >>)

\* params[name] = values
SetItem(params, name, values) ==
    IF \E k \in 1..Len(params) : params[k].name = name
    THEN [k \in 1..Len(params) |->
            IF params[k].name = name
            THEN [params[k] EXCEPT !.values = values]
            ELSE params[k]]
    ELSE Append(params, [name |-> name, values |-> values])

\* '&'.join(fields)
RECURSIVE JoinAmp(_)
JoinAmp(fields) ==
    IF fields = << >> THEN << >>
    ELSE IF Len(fields) = 1 THEN Head(fields)
    ELSE Head(fields) \o << "&" >> \o JoinAmp(Tail(fields))

\* urlencode's fields name=value, one for each value of each name
RECURSIVE EncodeFields(_)
EncodeFields(params) ==
    IF params = << >> THEN << >>
    ELSE [j \in 1..Len(Head(params).values) |->
            quote_plus(Head(params).name) \o << "=" >>
            \o quote_plus(Head(params).values[j])]
         \o EncodeFields(Tail(params))

\* urlencode(params, doseq=True)
urlencode(params) == JoinAmp(EncodeFields(params))

\* str(n) of an int
RECURSIVE str(_)
str(n) ==
    IF n < 0 THEN << "-" >> \o str(0 - n)
    ELSE IF n < 10 THEN << DigitChar(n) >>
    ELSE str(n \div 10) \o << DigitChar(n % 10) >>

\* urlunparse(parts)
urlunparse(parts) ==
    (IF parts.scheme # << >> THEN parts.scheme \o << ":" >> ELSE << >>)
    \o (IF parts.netloc # << >>
        THEN << "/", "/" >> \o parts.netloc
             \o (IF parts.path # << >> /\ Head(parts.path) # "/"
                 THEN << "/" >> ELSE << >>)
        ELSE << >>)
    \o parts.path
    \o (IF parts.query # << >> THEN << "?" >> \o parts.query ELSE << >>)
    \o (IF parts.fragment # << >> THEN << "#" >> \o parts.fragment ELSE << >>)

\* _build_paginated_url(base_url, pagination_param, page_number)
_build_paginated_url(base_url, pagination_param, page_number) ==
    urlunparse([urlparse(base_url) EXCEPT
                  !.query = urlencode(SetItem(parse_qs(urlparse(base_url).query),
                                              pagination_param,
                                              << str(page_number) >>))])

(***************************************************************************)
(* The world outside: the request, the sites, the extraction model.        *)
(***************************************************************************)
\* the categories requests ask for; "weather" is not configured
RequestCategories == {"education", "health", "weather"}

\* request.limit: absent, or an integer (the schema sets no range)
Limits == {PyNone, PyInt(-1), PyInt(0), PyInt(MaxLimit)}

\* request.date_from and request.date_to
DateRanges == { << PyNone, PyNone >> }

Requests ==
    {[category |-> c, limit |-> l, date_from |-> d[1], date_to |-> d[2]] :
        c \in RequestCategories, l \in Limits, d \in DateRanges}

\* the j-th article link a source's site lists
ArticleUrl(source_name, j) ==
    CASE source_name = "kun.uz" ->
           << "h", "t", "t", "p", "s", ":", "/", "/", "k", "u", "n", ".", "u", "z", "/", "n", "e", "w", "s", "/", "2", "0", "2", "5", "/", "0", "1", "/", "2" >> \o << DigitChar(j) >> \o << "/", "a" >>
      [] source_name = "spot.uz" ->
           << "h", "t", "t", "p", "s", ":", "/", "/", "w", "w", "w", ".", "s", "p", "o", "t", ".", "u", "z", "/", "o", "z", "/", "2", "0", "2", "5", "/", "0", "1", "/", "1" >> \o << DigitChar(j) >> \o << "/", "a" >>
      [] source_name = "gazeta.uz" ->
           << "h", "t", "t", "p", "s", ":", "/", "/", "w", "w", "w", ".", "g", "a", "z", "e", "t", "a", ".", "u", "z", "/", "o", "z", "/", "2", "0", "2", "5", "/", "0", "1", "/", "2" >> \o << DigitChar(j) >> \o << "/", "a" >>
      [] source_name = "afisha.uz" ->
           << "h", "t", "t", "p", "s", ":", "/", "/", "w", "w", "w", ".", "a", "f", "i", "s", "h", "a", ".", "u", "z", "/", "u", "z", "/", "a", "/", "2", "0", "2", "5", "/", "0", "1", "/", "2" >> \o << DigitChar(j) >> \o << "/", "a" >>
      [] source_name = "uzdaily.uz" ->
           << "h", "t", "t", "p", "s", ":", "/", "/", "w", "w", "w", ".", "u", "z", "d", "a", "i", "l", "y", ".", "u", "z", "/", "u", "z", "/", "a" >> \o << DigitChar(j) >> \o << "/" >>
      [] source_name = "zamon.uz" ->
           << "h", "t", "t", "p", "s", ":", "/", "/", "z", "a", "m", "o", "n", ".", "u", "z", "/", "d", "e", "t", "a", "i", "l", "/" >> \o << DigitChar(j) >>

\* the first n article links of a site, in page order
SiteLinks(source_name, n) == [j \in 1..n |-> ArticleUrl(source_name, j)]

\* the text of a fetched article: 100 characters
TextOk == Rep("a", MinRawText)
\* 99 characters between blanks
TextShort == << " " >> \o Rep("a", MinRawText - 1) \o << " " >>

\* the messages of the exceptions the extraction call raises
ErrorMsgs == { << "4", "2", "9" >>, << "R", "A", "T", "E", "_", "L", "I", "M", "I", "T" >>, << "5", "0", "0" >> }

Title == PyStr(<< "T" >>)
Content50 == PyStr(Rep("a", MinContent))
En == PyStr(<< "e", "n" >>)

\* the texts the extraction model returns
Replies ==
    { \* a JSON object, no date
      << Json(Obj(Title, Content50, PyNone, En)) >>,
      \* the title is a number
      << Json(Obj(PyInt(7), Content50, PyNone, En)) >>,
      \* the date is a number
      << Json(Obj(Title, Content50, PyInt(20250125), En)) >>,
      \* no JSON
      << Word >> }

(***************************************************************************)
(* State.                                                                  *)
(***************************************************************************)
VARIABLES
    request,            \* the FetchNewsRequest
    pc,                 \* where fetch_news is: start, gather, call, backoff, pace, done
    http,               \* the response: 200, 400 (HTTPException) or 500 (an exception escaped)
    limit, date_from, date_to, limit_per_source,   \* locals of fetch_news
    tasks,              \* the collect_articles_from_source coroutines, in source order
    fetched,            \* a page has been fetched
    raw_articles,       \* the merge of the collectors' results
    processed,          \* process_articles_batch: the articles normalized so far
    i,                  \* process_articles_batch: the raw article in hand (1-based)
    attempt,            \* _call_mistral_with_retry: the loop variable
    calls,              \* invocations of _call_mistral_sync for the article in hand
    called,             \* an extraction call has been made
    delays,             \* backoff sleeps begun for the article in hand, in order
    lastCall,           \* the last invocation: none, ok with its text, or error with its message
    response,           \* what _call_mistral_with_retry returned
    result,             \* what extract_article_with_mistral returned
    filtered,           \* fetch_news line 106: the result of _filter_by_date
    \* one run of collect_articles_from_source, step by step
    args,               \* its parameters: source_name, category_url, limit
    at,                 \* the await it is at: off, crawl, url, goto, button, parse, returned, raised
    shown,              \* how many of its articles the site has listed so far
    html,               \* the listing page fetched last
    last_fetch,         \* how the last fetch of a listing ended: none, ok, raised
    last_article,       \* how the last fetch of an article ended: none, ok, short, raises
    link_list,          \* the list links; inside _paginate_by_url its list all_links
    all_links,          \* _paginate_inner: the set all_links
    page_num,           \* _paginate_by_url: the loop variable
    new_links,          \* the links extracted from the last pagination page, as a set
    added,              \* _paginate_by_url: the links the last page added
    pagination_attempt, \* _paginate_inner: the loop variable (attempt)
    requested,          \* the listing URLs _paginate_by_url has fetched, in order
    clicks,             \* how many times _paginate_inner has clicked a trigger
    url_index,          \* the article loop: the position in links (1-based)
    collected           \* the article loop: the list result

paramVars == << limit, date_from, date_to, limit_per_source >>
gatherVars == << tasks, fetched >>
batchVars == << raw_articles, processed, i >>
callVars == << attempt, calls, called, delays, lastCall, response, result >>
endVars == << http, filtered >>
crawlVars == << args, at, shown, html, last_fetch, last_article, link_list, all_links, page_num, new_links,
               added, pagination_attempt, requested, clicks, url_index, collected >>
vars == << request, pc, paramVars, gatherVars, batchVars, callVars, endVars,
           crawlVars >>

NoHttp == [status |-> 0, category |-> "", total_fetched |-> 0,
           articles |-> << >>, detail |-> << >>]
NoResult == [isNone |-> TRUE, d |-> NoArticle, ex |-> ""]
NoCall == [kind |-> "none", msg |-> << >>, text |-> << >>]

NoPage == [hrefs |-> << >>, md |-> << >>]
NoArgs == [source_name |-> "", category_url |-> << >>, limit |-> 0]

\* no step-by-step collector runs
Idle ==
    /\ args = NoArgs /\ at = "off" /\ shown = 0 /\ html = NoPage
    /\ last_fetch = "none" /\ last_article = "none"
    /\ link_list = << >> /\ all_links = {} /\ page_num = 0 /\ new_links = {}
    /\ added = 0 /\ pagination_attempt = 0 /\ requested = << >> /\ clicks = 0
    /\ url_index = 0 /\ collected = << >>

\* fetch_news has not started on request req
Unstarted(req) ==
    /\ request = req
    /\ http = NoHttp
    /\ limit = 0 /\ date_from = << >> /\ date_to = << >> /\ limit_per_source = 0
    /\ tasks = << >> /\ fetched = FALSE
    /\ raw_articles = << >> /\ processed = << >> /\ i = 0
    /\ attempt = 0 /\ calls = 0 /\ called = FALSE /\ delays = << >>
    /\ lastCall = NoCall /\ response = << >> /\ result = NoResult
    /\ filtered = << >>

Blank(req) == Unstarted(req) /\ Idle

\* no request is being served
NoRequest == [category |-> "", limit |-> PyNone, date_from |-> PyNone, date_to |-> PyNone]

Init == \E req \in Requests : Blank(req) /\ pc = "start"

(***************************************************************************)
(* routers/news.py: the result filter and the response.                    *)
(***************************************************************************)
\* the loop of _filter_by_date over the articles left, `kept` the result so
\* far: [ex, out].  Comparing a str with a value that is no str raises
\* TypeError.
RECURSIVE FilterLoop(_, _, _, _)
FilterLoop(articles, from, to, kept) ==
    IF articles = << >> THEN [ex |-> "", out |-> kept]
    ELSE LET a == Head(articles)
             pub_date == a.date_of_publication
         IN  IF pub_date.t = "null"
             THEN FilterLoop(Tail(articles), from, to, Append(kept, a))
             ELSE IF pub_date.t # "str"
             THEN [ex |-> "TypeError", out |-> << >>]
             ELSE IF StrLE(from, pub_date.s) /\ StrLE(pub_date.s, to)
             THEN FilterLoop(Tail(articles), from, to, Append(kept, a))
             ELSE FilterLoop(Tail(articles), from, to, kept)

\* a filter with the upper bound exclusive
RECURSIVE FilterLoopExclusive(_, _, _, _)
FilterLoopExclusive(articles, from, to, kept) ==
    IF articles = << >> THEN [ex |-> "", out |-> kept]
    ELSE LET a == Head(articles)
             pub_date == a.date_of_publication
         IN  IF pub_date.t = "null"
             THEN FilterLoopExclusive(Tail(articles), from, to, Append(kept, a))
             ELSE IF pub_date.t # "str"
             THEN [ex |-> "TypeError", out |-> << >>]
             ELSE IF StrLE(from, pub_date.s) /\ StrLE(pub_date.s, to)
                     /\ pub_date.s # to
             THEN FilterLoopExclusive(Tail(articles), from, to, Append(kept, a))
             ELSE FilterLoopExclusive(Tail(articles), from, to, kept)

_filter_by_date_exclusive(articles, from, to) ==
    FilterLoopExclusive(articles, from, to, << >>)

\* _filter_by_date(articles, date_from, date_to)
_filter_by_date(articles, from, to) == FilterLoop(articles, from, to, << >>)

\* s[:n], n of either sign
Slice(s, n) == IF n >= 0 THEN Prefix(s, n) ELSE Prefix(s, Max(0, Len(s) + n))

\* the per-source floor of line 59
MinPerSource == 5

\* line 59: max(5, (limit * 2) // len(sources))
LimitPerSource(lim, n_sources) == Max(MinPerSource, (lim * 2) \div n_sources)

\* ArticleOut(...): the schema's str fields take a str, the Optional[str]
\* fields a str or None; anything else is a ValidationError
ArticleOutValid(a) ==
    /\ a.title.t = "str"
    /\ a.content.t = "str"
    /\ a.date_of_publication.t \in {"str", "null"}
    /\ a.language.t = "str"
    /\ a.image_url.t \in {"str", "null"}

\* an exception escaped fetch_news
Error500 == [NoHttp EXCEPT !.status = 500]

\* lines 103-132: the batch has returned `done`; filter, cut, build, return
Respond(done) ==
    LET f == _filter_by_date(done, date_from, date_to)
        cut == Slice(f.out, limit)
    IN  /\ pc' = "done"
        /\ filtered' = f.out
        /\ http' = IF f.ex # "" \/ \E k \in 1..Len(cut) : ~ArticleOutValid(cut[k])
                   THEN Error500
                   ELSE [status |-> 200, category |-> request.category,
                         total_fetched |-> Len(cut), articles |-> cut,
                         detail |-> << >>]

(***************************************************************************)
(* routers/news.py: validation and fan-out.                                *)
(***************************************************************************)
NewTask(source, lim) ==
    [source_name |-> source[1], category_url |-> source[2], limit |-> lim,
     st |-> "crawl", links |-> << >>, k |-> 0, result |-> << >>]

\* lines 39-76: reject an unknown category; else resolve the parameters and
\* create one collector per source
fetch_news ==
    /\ pc = "start"
    /\ LET sources == get_sources_for_category(request.category) IN
       IF sources = << >>
       THEN /\ pc' = "done"
            /\ http' = [NoHttp EXCEPT !.status = 400, !.detail = get_categories]
            /\ UNCHANGED << paramVars, gatherVars >>
       ELSE LET lim == Or(request.limit, PyInt(settings.default_limit)).n IN
            /\ limit' = lim
            /\ date_from' = Or(request.date_from, PyStr(get_default_date_from)).s
            /\ date_to' = Or(request.date_to, PyStr(get_default_date_to)).s
            /\ limit_per_source' = LimitPerSource(lim, Len(sources))
            /\ tasks' = [s \in 1..Len(sources) |->
                            NewTask(sources[s], LimitPerSource(lim, Len(sources)))]
            /\ pc' = "gather"
            /\ UNCHANGED << http, fetched >>
    /\ UNCHANGED << crawlVars, request, batchVars, callVars, filtered >>

(***************************************************************************)
(* services/crawler_service.py: collect_articles_from_source.              *)
(***************************************************************************)
\* line 429 on: cut the links to the limit; with none left the collector
\* returns at once
WithLinks(task, links) ==
    LET cut == Slice(links, task.limit)
    IN  [task EXCEPT !.links = cut, !.k = 1,
                     !.st = IF cut = << >> THEN "done" ELSE "parse"]

\* lines 398-427: the category page is fetched and shows the site's first n
\* links; pagination follows when they are too few
crawl_category_page(s, n) ==
    /\ pc = "gather" /\ tasks[s].st = "crawl"
    /\ LET task == tasks[s]
           name == task.source_name
           links == SiteLinks(name, n)
       IN  tasks' = [tasks EXCEPT ![s] =
             IF Len(links) < task.limit
                /\ get_pagination_type(name) = "url"
                /\ Truthy(get_pagination_param(name))
             THEN [task EXCEPT !.links = links, !.st = "paginate_url"]
             ELSE IF Len(links) < task.limit
                     /\ get_pagination_type(name) = "button"
                     /\ get_pagination_buttons(name) # << >>
             THEN [task EXCEPT !.links = links, !.st = "paginate_button"]
             ELSE WithLinks(task, links)]
    /\ fetched' = TRUE
    /\ UNCHANGED << crawlVars, request, pc, paramVars, batchVars, callVars, endVars >>

\* line 398 raises: both render policies failed
crawl_category_page_raises(s) ==
    /\ pc = "gather" /\ tasks[s].st = "crawl"
    /\ tasks' = [tasks EXCEPT ![s].st = "raised"]
    /\ UNCHANGED << crawlVars, request, pc, paramVars, fetched, batchVars, callVars, endVars >>

\* lines 407-414: _paginate_by_url returns the links found, then the site's
\* next ones up to the n-th, in order
_paginate_by_url(s, n) ==
    /\ pc = "gather" /\ tasks[s].st = "paginate_url"
    /\ n >= Len(tasks[s].links)
    /\ tasks' = [tasks EXCEPT ![s] =
                   WithLinks(@, SiteLinks(@.source_name, n))]
    /\ fetched' = TRUE
    /\ UNCHANGED << crawlVars, request, pc, paramVars, batchVars, callVars, endVars >>

\* the orders of a list
Perms(seq) ==
    {p \in [1..Len(seq) -> {seq[j] : j \in 1..Len(seq)}] :
        \A a, b \in 1..Len(seq) : a # b => p[a] # p[b]}

\* lines 420-426: paginate_and_collect_links returns list(all_links), the
\* set of the links found and the site's next ones up to the n-th, in the
\* order the set gives them
paginate_and_collect_links(s, n) ==
    /\ pc = "gather" /\ tasks[s].st = "paginate_button"
    /\ n >= Len(tasks[s].links)
    /\ \E order \in Perms(SiteLinks(tasks[s].source_name, n)) :
          tasks' = [tasks EXCEPT ![s] = WithLinks(@, order)]
    /\ fetched' = TRUE
    /\ UNCHANGED << crawlVars, request, pc, paramVars, batchVars, callVars, endVars >>

\* the rendering session of the button pagination raises
paginate_and_collect_links_raises(s) ==
    /\ pc = "gather" /\ tasks[s].st = "paginate_button"
    /\ tasks' = [tasks EXCEPT ![s].st = "raised"]
    /\ UNCHANGED << crawlVars, request, pc, paramVars, fetched, batchVars, callVars, endVars >>

\* the outcomes of fetching one article page
ParseOutcomes == {"raises", "short", "ok"}

\* lines 434-448: one turn of the article loop; after the last the
\* collector returns
parse_article(s, outcome) ==
    /\ pc = "gather" /\ tasks[s].st = "parse"
    /\ LET task == tasks[s]
           url == task.links[task.k]
           raw == IF outcome = "short" THEN TextShort ELSE TextOk
           article == [url |-> url, raw_text |-> raw, image_url |-> PyNone,
                       source_name |-> task.source_name]
           keep == outcome # "raises" /\ ~(Len(Strip(raw)) < MinRawText)
       IN  tasks' = [tasks EXCEPT ![s] =
             [task EXCEPT !.result = IF keep THEN Append(@, article) ELSE @,
                          !.k = @ + 1,
                          !.st = IF task.k + 1 > Len(task.links)
                                 THEN "done" ELSE "parse"]]
    /\ fetched' = TRUE
    /\ UNCHANGED << crawlVars, request, pc, paramVars, batchVars, callVars, endVars >>

(***************************************************************************)
(* services/mistral_service.py: the batch and the retry loop.              *)
(***************************************************************************)
\* _call_mistral_with_retry(prompt, max_retries = 5)
max_retries == 5

\* a test that takes every failure for a rate limit
IsRateLimitAny(error_msg) == TRUE

\* line 65: "429" in error_msg or "rate_limit" in error_msg.lower()
IsRateLimit(error_msg) ==
    \/ Contains(error_msg, << "4", "2", "9" >>)
    \/ Contains(Lower(error_msg), << "r", "a", "t", "e", "_", "l", "i", "m", "i", "t" >>)

\* a linear backoff
wait_time_linear(a) == 2 * (a + 1)

\* line 66: wait_time = 2 ** (attempt + 1)
wait_time(a) == 2 ^ (a + 1)

\* result['title'][:60] of line 194 raises TypeError unless the title can
\* be sliced
Sliceable(v) == v.t \in {"str", "list"}

\* the locals of the call for one article, as the call starts
ResetCall ==
    /\ attempt' = 0 /\ calls' = 0 /\ delays' = << >> /\ lastCall' = NoCall
    /\ response' = << >> /\ result' = NoResult

\* a batch that goes into the call whatever the text
StartArticleAnyText(j, raws) ==
    /\ i' = j
    /\ ResetCall
    /\ pc' = "call"

\* lines 181-190 and 95-104: the batch reaches raw article j of `raws`;
\* extract_article_with_mistral returns None for a short text, else it
\* goes into the call
StartArticle(j, raws) ==
    /\ i' = j
    /\ ResetCall
    /\ pc' = IF raws[j].raw_text = << >>
                \/ Len(Strip(raws[j].raw_text)) < MinRawText
             THEN "pace" ELSE "call"

\* a merge that drops every result when one collector raised
RECURSIVE Results(_)
Results(ts) == IF ts = << >> THEN << >> ELSE Head(ts).result \o Results(Tail(ts))

MergeAllOrNothing(ts) ==
    IF \E s \in 1..Len(ts) : ts[s].st = "raised" THEN << >> ELSE Results(ts)

\* a merge that takes the tasks last first
RECURSIVE MergeLastFirst(_)
MergeLastFirst(ts) ==
    IF ts = << >> THEN << >>
    ELSE MergeLastFirst(Tail(ts))
         \o (IF Head(ts).st = "raised" THEN << >> ELSE Head(ts).result)

\* lines 81-86: the results of the collectors that returned, in task order
RECURSIVE Merge(_)
Merge(ts) ==
    IF ts = << >> THEN << >>
    ELSE (IF Head(ts).st = "raised" THEN << >> ELSE Head(ts).result)
         \o Merge(Tail(ts))

\* lines 78-101: gather returns once every collector has returned or raised
gather ==
    /\ pc = "gather"
    /\ \A s \in 1..Len(tasks) : tasks[s].st \in {"done", "raised"}
    /\ LET raws == Merge(tasks) IN
       /\ raw_articles' = raws
       /\ IF raws = << >>
          THEN /\ pc' = "done"
               /\ http' = [status |-> 200, category |-> request.category,
                           total_fetched |-> 0, articles |-> << >>,
                           detail |-> << >>]
               /\ UNCHANGED << i, attempt, calls, delays, lastCall,
                               response, result >>
          ELSE /\ StartArticle(1, raws)
               /\ UNCHANGED http
    /\ UNCHANGED << crawlVars, request, paramVars, gatherVars, processed, called, filtered >>

\* lines 192-198 of process_articles_batch, res what
\* extract_article_with_mistral returned
Collect(res) ==
    /\ result' = res
    /\ processed' = IF res.isNone THEN processed ELSE Append(processed, res.d)
    /\ IF ~res.isNone /\ ~Sliceable(res.d.title)
       THEN pc' = "done" /\ http' = Error500
       ELSE pc' = "pace" /\ UNCHANGED http

\* lines 61-62, 105-122 and 192-198: the invocation returns text r; the
\* article is normalized and, when there is one, appended
_call_mistral_sync(r) ==
    /\ pc = "call"
    /\ calls' = calls + 1 /\ called' = TRUE
    /\ lastCall' = [kind |-> "ok", msg |-> << >>, text |-> r]
    /\ response' = r
    /\ Collect(extract_article_with_mistral(r, request.category,
                    raw_articles[i].url, raw_articles[i].source_name,
                    raw_articles[i].image_url))
    /\ UNCHANGED << crawlVars, request, paramVars, gatherVars, raw_articles, i, attempt,
                    delays, filtered >>

\* lines 63-70 and 124-126: the invocation raises with message msg; a
\* rate-limit message starts the backoff sleep, any other is raised again
\* and caught by extract_article_with_mistral
_call_mistral_sync_raises(msg) ==
    /\ pc = "call"
    /\ calls' = calls + 1 /\ called' = TRUE
    /\ lastCall' = [kind |-> "error", msg |-> msg, text |-> << >>]
    /\ IF IsRateLimit(msg)
       THEN /\ delays' = Append(delays, wait_time(attempt))
            /\ pc' = "backoff"
            /\ UNCHANGED result
       ELSE /\ result' = [NoResult EXCEPT !.ex = "CallError"]
            /\ pc' = "pace"
            /\ UNCHANGED delays
    /\ UNCHANGED << crawlVars, request, paramVars, gatherVars, batchVars, attempt,
                    response, endVars >>

\* a retry loop whose final raise escapes the batch
_call_mistral_with_retry_escapes ==
    /\ pc = "backoff"
    /\ attempt' = attempt + 1
    /\ IF attempt + 1 < max_retries
       THEN pc' = "call" /\ UNCHANGED << result, http >>
       ELSE /\ pc' = "done" /\ http' = Error500
            /\ result' = [NoResult EXCEPT !.ex = "RetriesExhausted"]
    /\ UNCHANGED << crawlVars, request, paramVars, gatherVars, batchVars, calls, called,
                    delays, lastCall, response, filtered >>

\* lines 68-71: the backoff sleep is over; the loop goes on to the next
\* attempt, or ends and raises, which extract_article_with_mistral catches
_call_mistral_with_retry ==
    /\ pc = "backoff"
    /\ attempt' = attempt + 1
    /\ IF attempt + 1 < max_retries
       THEN pc' = "call" /\ UNCHANGED result
       ELSE pc' = "pace" /\ result' = [NoResult EXCEPT !.ex = "RetriesExhausted"]
    /\ UNCHANGED << crawlVars, request, paramVars, gatherVars, batchVars, calls, called,
                    delays, lastCall, response, endVars >>

\* a batch that goes on to the next raw article while the call of the
\* present one waits in its backoff
process_articles_batch_overlapping ==
    /\ pc \in {"pace", "backoff"}
    /\ IF i + 1 > Len(raw_articles)
       THEN /\ Respond(processed)
            /\ ResetCall
            /\ UNCHANGED i
       ELSE /\ StartArticle(i + 1, raw_articles)
            /\ UNCHANGED endVars
    /\ UNCHANGED << crawlVars, request, paramVars, gatherVars, raw_articles, processed,
                    called >>

\* line 198 on: the pacing sleep is over; the batch goes to the next raw
\* article, or returns, and fetch_news filters and responds
process_articles_batch ==
    /\ pc = "pace"
    /\ IF i + 1 > Len(raw_articles)
       THEN /\ Respond(processed)
            /\ ResetCall
            /\ UNCHANGED i
       ELSE /\ StartArticle(i + 1, raw_articles)
            /\ UNCHANGED endVars
    /\ UNCHANGED << crawlVars, request, paramVars, gatherVars, raw_articles, processed,
                    called >>

(***************************************************************************)
(* The aggregation.                                                        *)
(***************************************************************************)
Next ==
    \/ fetch_news
    \/ \E s \in 1..Len(tasks), n \in 0..MaxLinks : crawl_category_page(s, n)
    \/ \E s \in 1..Len(tasks) : crawl_category_page_raises(s)
    \/ \E s \in 1..Len(tasks), n \in 0..MaxLinks : _paginate_by_url(s, n)
    \/ \E s \in 1..Len(tasks), n \in 0..MaxLinks : paginate_and_collect_links(s, n)
    \/ \E s \in 1..Len(tasks) : paginate_and_collect_links_raises(s)
    \/ \E s \in 1..Len(tasks), outcome \in ParseOutcomes : parse_article(s, outcome)
    \/ gather
    \/ \E r \in Replies : _call_mistral_sync(r)
    \/ \E msg \in ErrorMsgs : _call_mistral_sync_raises(msg)
    \/ _call_mistral_with_retry
    \/ process_articles_batch

Spec == Init /\ [][Next]_vars

(***************************************************************************)
(* The aggregation when a fetch may never return.  fetch_news awaits       *)
(* asyncio.gather with return_exceptions=True and no timeout about         *)
(* the tasks or about the call; the event loop runs every coroutine that   *)
(* can take a step.                                                        *)
(***************************************************************************)
\* an await of a collector (a page or article fetch) never returns
fetch_hangs(s) ==
    /\ pc = "gather"
    /\ tasks[s].st \in {"crawl", "paginate_url", "paginate_button", "parse"}
    /\ tasks' = [tasks EXCEPT ![s].st = "hung"]
    /\ UNCHANGED << crawlVars, request, pc, paramVars, fetched, batchVars, callVars, endVars >>

NextHang ==
    \/ Next
    \/ \E s \in 1..Len(tasks) : fetch_hangs(s)

\* the steps of collector s that return to the event loop
collect_articles_from_source(s) ==
    /\ s \in 1..Len(tasks)
    /\ \/ \E n \in 0..MaxLinks : crawl_category_page(s, n)
       \/ crawl_category_page_raises(s)
       \/ \E n \in 0..MaxLinks : _paginate_by_url(s, n)
       \/ \E n \in 0..MaxLinks : paginate_and_collect_links(s, n)
       \/ paginate_and_collect_links_raises(s)
       \/ \E outcome \in ParseOutcomes : parse_article(s, outcome)

\* a category has at most as many collectors as there are sources
TaskSlots == 1..Cardinality(SourceNames)

\* every coroutine that can take a step does: fetch_news itself (each of
\* its steps changes pc) and each collector that has not hung
SpecHang ==
    /\ Init /\ [][NextHang]_vars
    /\ WF_pc(Next)
    /\ \A s \in TaskSlots : WF_tasks(collect_articles_from_source(s))

(***************************************************************************)
(* The gather when the collectors end in the reverse of the order of their *)
(* sources: a collector takes its steps once every collector after it has  *)
(* returned or raised.                                                     *)
(***************************************************************************)
Ended(s) == tasks[s].st \in {"done", "raised"}

Turn(s) == \A q \in (s + 1)..Len(tasks) : Ended(q)

NextMerge ==
    \/ fetch_news
    \/ \E s \in 1..Len(tasks), n \in 0..MaxLinks : Turn(s) /\ crawl_category_page(s, n)
    \/ \E s \in 1..Len(tasks) : Turn(s) /\ crawl_category_page_raises(s)
    \/ \E s \in 1..Len(tasks), n \in 0..MaxLinks : Turn(s) /\ _paginate_by_url(s, n)
    \/ \E s \in 1..Len(tasks), n \in 0..MaxLinks : Turn(s) /\ paginate_and_collect_links(s, n)
    \/ \E s \in 1..Len(tasks) : Turn(s) /\ paginate_and_collect_links_raises(s)
    \/ \E s \in 1..Len(tasks), outcome \in ParseOutcomes : Turn(s) /\ parse_article(s, outcome)
    \/ gather

SpecMerge == Init /\ [][NextMerge]_vars

(***************************************************************************)
(* The state fetch_news is in once the collectors are gathered.            *)
(***************************************************************************)
\* the raw article parse_article and lines 434-443 make of link j of a site
RawArticle(source_name, j) ==
    [url |-> ArticleUrl(source_name, j), raw_text |-> TextOk,
     image_url |-> PyNone, source_name |-> source_name]

\* a collector that has returned n raw articles
DoneTask(source, lim, n) ==
    [source_name |-> source[1], category_url |-> source[2], limit |-> lim,
     st |-> "done",
     links |-> SiteLinks(source[1], n), k |-> n + 1,
     result |-> [j \in 1..n |-> RawArticle(source[1], j)]]

\* lines 48-86 for request req, collector s having returned counts[s] raw
\* articles
AfterGather(req, counts) ==
    LET sources == get_sources_for_category(req.category)
        lim == Or(req.limit, PyInt(settings.default_limit)).n
        done == [s \in 1..Len(sources) |->
                   DoneTask(sources[s], LimitPerSource(lim, Len(sources)), counts[s])]
    IN  /\ request = req
        /\ limit = lim
        /\ date_from = Or(req.date_from, PyStr(get_default_date_from)).s
        /\ date_to = Or(req.date_to, PyStr(get_default_date_to)).s
        /\ limit_per_source = LimitPerSource(lim, Len(sources))
        /\ tasks = done
        /\ fetched = TRUE
        /\ raw_articles = Merge(done)
        /\ http = NoHttp
        /\ filtered = << >>
        /\ Idle

\* how many raw articles each collector of a category returned
Counts(category) == [1..Len(get_sources_for_category(category)) -> 0..MaxLinks]

RECURSIVE Sum(_)
Sum(counts) == IF counts = << >> THEN 0 ELSE Head(counts) + Sum(Tail(counts))

(***************************************************************************)
(* The normalization of one raw article, for contents of every length      *)
(* about the cut.                                                          *)
(***************************************************************************)
\* characters a content runs beyond the 1500 of the cut
MaxExtra == 2

\* a content of n characters: "a" up to the 1497th, "b" from there on
LongContent(n) == [j \in 1..n |-> IF j <= KeptContent THEN "a" ELSE "b"]

ContentLengths ==
    {MinContent - 1, MinContent} \cup ((KeptContent - 1)..(MaxContent + MaxExtra))

ReplyDate == PyStr(<< "2", "0", "2", "5", "-", "0", "1", "-", "2", "5" >>)

\* the JSON objects the extraction model returns, bare and fenced
WideReplies ==
    LET docs == {Json(Obj(Title, PyStr(LongContent(n)), d, En)) :
                    n \in ContentLengths, d \in {PyNone, ReplyDate}}
    IN  {<< doc >> : doc \in docs} \cup {<< FenceJson, Ws, doc, Ws, Fence >> : doc \in docs}

InitNormalize ==
    \E req \in {r \in Requests : r.category \in DOMAIN CATEGORY_MAPPING
                                  /\ r.limit = PyNone} :
      \E counts \in Counts(req.category) :
        /\ Sum(counts) = 1
        /\ AfterGather(req, counts)
        /\ processed = << >> /\ i = 1 /\ pc = "call"
        /\ attempt = 0 /\ calls = 0 /\ called = FALSE /\ delays = << >>
        /\ lastCall = NoCall /\ response = << >> /\ result = NoResult

NextNormalize ==
    \/ \E r \in WideReplies : _call_mistral_sync(r)
    \/ process_articles_batch

SpecNormalize == InitNormalize /\ [][NextNormalize]_vars

(***************************************************************************)
(* The normalization of one raw article, for replies that are no JSON,     *)
(* that lack a field, and whose content is short, blank or padded.         *)
(***************************************************************************)
\* 49 characters between two blanks
ContentShort == << " " >> \o Rep("a", MinContent - 1) \o << " " >>

\* 50 characters after 1497 blanks
ContentPadded == Rep(" ", KeptContent) \o Rep("a", MinContent)

ReplyTitles == {Absent, PyNone, PyStr(<< >>), Title}

ReplyContents ==
    {Absent, PyNone, PyStr(<< >>), PyStr(ContentShort), Content50,
     PyStr(LongContent(MaxContent + MaxExtra)), PyStr(ContentPadded)}

\* the replies: nothing, a word, an array, two documents, an object after a
\* fence with another tag, and objects bare, between blanks and fenced
ParseReplies ==
    LET docs == {Json(Obj(t, c, PyNone, En)) : t \in ReplyTitles, c \in ReplyContents}
    IN  {<< >>, << Word >>, << Json(Arr) >>}
        \cup {<< doc, doc >> : doc \in docs}
        \cup {<< Fence, Word, Ws, doc, Ws, Fence >> : doc \in docs}
        \cup {<< doc >> : doc \in docs}
        \cup {<< Ws, doc, Ws >> : doc \in docs}
        \cup {<< Fence, Ws, doc, Ws, Fence >> : doc \in docs}
        \cup {<< Ws, FenceJson, Ws, doc, Ws, Fence, Ws >> : doc \in docs}

NextReplies ==
    \/ \E r \in ParseReplies : _call_mistral_sync(r)
    \/ process_articles_batch

SpecReplies == InitNormalize /\ [][NextReplies]_vars

(***************************************************************************)
(* The result filter, for batches of dated and undated articles.           *)
(***************************************************************************)
\* the dates the extraction model gives
FilterDates ==
    { PyNone,
      PyStr(<< "2", "0", "2", "4", "-", "1", "2", "-", "3", "1" >>),
      PyStr(<< "2", "0", "2", "5", "-", "0", "1", "-", "1", "5" >>),
      PyStr(<< "2", "0", "2", "5", "-", "0", "1", "-", "2", "0" >>),
      PyStr(<< "2", "0", "2", "5", "-", "0", "1", "-", "2", "5" >>),
      PyStr(<< "2", "0", "2", "5", "-", "0", "1", "-", "2", "7" >>),
      PyStr(<< "2", "0", "2", "5", "-", "0", "1", "-", "2", "8" >>) }

DatedReply(d) == << Json(Obj(Title, Content50, d, En)) >>

\* request.date_from and request.date_to: absent, one day, across a year's end
FilterRanges ==
    { << PyNone, PyNone >>,
      << PyStr(<< "2", "0", "2", "5", "-", "0", "1", "-", "2", "5" >>), PyStr(<< "2", "0", "2", "5", "-", "0", "1", "-", "2", "5" >>) >>,
      << PyStr(<< "2", "0", "2", "4", "-", "1", "2", "-", "3", "1" >>), PyStr(<< "2", "0", "2", "5", "-", "0", "1", "-", "2", "0" >>) >> }

FilterRequests ==
    {[category |-> "health", limit |-> l, date_from |-> d[1], date_to |-> d[2]] :
        l \in {PyNone, PyInt(MaxLimit)}, d \in FilterRanges}

\* the batch has normalized its last raw article: every call returned at
\* once, the model dating article j as dates[j]
InitFilter ==
    \E req \in FilterRequests :
      \E counts \in Counts(req.category) :
        /\ Sum(counts) >= 1
        /\ AfterGather(req, counts)
        /\ \E dates \in [1..Sum(counts) -> FilterDates] :
             LET done == [j \in 1..Sum(counts) |->
                            extract_article_with_mistral(DatedReply(dates[j]),
                                req.category, raw_articles[j].url,
                                raw_articles[j].source_name,
                                raw_articles[j].image_url)]
                 last == Sum(counts)
             IN  /\ processed = [j \in 1..last |-> done[j].d]
                 /\ i = last
                 /\ response = DatedReply(dates[last])
                 /\ lastCall = [kind |-> "ok", msg |-> << >>,
                                text |-> DatedReply(dates[last])]
                 /\ result = done[last]
        /\ pc = "pace"
        /\ attempt = 0 /\ calls = 1 /\ called = TRUE /\ delays = << >>

NextFilter == process_articles_batch

SpecFilter == InitFilter /\ [][NextFilter]_vars

(***************************************************************************)
(* The date backfill, for article URLs with and without a date segment.    *)
(***************************************************************************)
\* article links of zamon.uz (its shape is /detail/ and anything): no date
\* segment, one, two, a one-digit month, no slash after the day, five
\* digits before the year's slash
BackfillUrls ==
    { << "h", "t", "t", "p", "s", ":", "/", "/", "z", "a", "m", "o", "n", ".", "u", "z", "/", "d", "e", "t", "a", "i", "l", "/", "7" >>,
      << "h", "t", "t", "p", "s", ":", "/", "/", "z", "a", "m", "o", "n", ".", "u", "z", "/", "d", "e", "t", "a", "i", "l", "/", "2", "0", "2", "6", "/", "0", "1", "/", "3", "1", "/", "a" >>,
      << "h", "t", "t", "p", "s", ":", "/", "/", "z", "a", "m", "o", "n", ".", "u", "z", "/", "d", "e", "t", "a", "i", "l", "/", "2", "0", "2", "5", "/", "0", "1", "/", "2", "1", "/", "2", "0", "2", "4", "/", "1", "2", "/", "3", "1", "/", "a" >>,
      << "h", "t", "t", "p", "s", ":", "/", "/", "z", "a", "m", "o", "n", ".", "u", "z", "/", "d", "e", "t", "a", "i", "l", "/", "2", "0", "2", "5", "/", "1", "/", "2", "1", "/", "a" >>,
      << "h", "t", "t", "p", "s", ":", "/", "/", "z", "a", "m", "o", "n", ".", "u", "z", "/", "d", "e", "t", "a", "i", "l", "/", "2", "0", "2", "5", "/", "0", "1", "/", "2", "1" >>,
      << "h", "t", "t", "p", "s", ":", "/", "/", "z", "a", "m", "o", "n", ".", "u", "z", "/", "d", "e", "t", "a", "i", "l", "/", "1", "2", "0", "2", "5", "/", "0", "1", "/", "2", "1", "/", "a" >> }

\* the model gives no date (null, or no such key), or gives one
BackfillReplies ==
    LET docs == {Json(Obj(Title, Content50, d, En)) : d \in {PyNone, Absent, ReplyDate}}
    IN  {<< doc >> : doc \in docs} \cup {<< Fence, Ws, doc, Ws, Fence >> : doc \in docs}

\* the zamon.uz collector has returned the one raw article behind url, the
\* other collectors none; the batch is about to call the model for it
InitBackfill ==
    \E req \in {r \in Requests : r.category = "health"}, url \in BackfillUrls :
      LET sources == get_sources_for_category(req.category)
          lim == Or(req.limit, PyInt(settings.default_limit)).n
          per == LimitPerSource(lim, Len(sources))
          raw == [RawArticle("zamon.uz", 1) EXCEPT !.url = url]
          done == [s \in 1..Len(sources) |->
                     IF sources[s][1] = "zamon.uz"
                     THEN [DoneTask(sources[s], per, 1) EXCEPT
                               !.links = << url >>, !.result = << raw >>]
                     ELSE DoneTask(sources[s], per, 0)]
      IN  /\ request = req
          /\ limit = lim
          /\ date_from = Or(req.date_from, PyStr(get_default_date_from)).s
          /\ date_to = Or(req.date_to, PyStr(get_default_date_to)).s
          /\ limit_per_source = per
          /\ tasks = done /\ fetched = TRUE
          /\ raw_articles = Merge(done)
          /\ http = NoHttp /\ filtered = << >>
          /\ processed = << >> /\ i = 1 /\ pc = "call"
          /\ attempt = 0 /\ calls = 0 /\ called = FALSE /\ delays = << >>
          /\ lastCall = NoCall /\ response = << >> /\ result = NoResult
          /\ Idle

NextBackfill ==
    \/ \E r \in BackfillReplies : _call_mistral_sync(r)
    \/ process_articles_batch

SpecBackfill == InitBackfill /\ [][NextBackfill]_vars

(***************************************************************************)
(* _build_paginated_url on its own: a URL for one page is built from a     *)
(* listing URL, then a URL for another page from the URL just built.       *)
(***************************************************************************)
\* _paginate_by_url: max_pages
max_pages == 10

\* the page numbers of range(2, max_pages + 2)
PageNumbers == 2..(max_pages + 1)

Page == << "p", "a", "g", "e" >>
GazetaSport == << "h", "t", "t", "p", "s", ":", "/", "/", "w", "w", "w", ".", "g", "a", "z", "e", "t", "a", ".", "u", "z", "/", "o", "z", "/", "s", "p", "o", "r", "t", "/" >>

\* listing URLs: those of the url-paginated sources of a category, the same
\* without a query, with other parameters, with a parameter of no value and
\* with a fragment
BuilderUrls ==
    {src[2] : src \in {s \in Range(get_sources_for_category("sport")) :
                          get_pagination_type(s[1]) = "url"}}
    \cup { GazetaSport,
           GazetaSport \o << "?", "a", "=", "1", "&", "p", "a", "g", "e", "=", "1", "&", "b", "=", "2" >>,
           GazetaSport \o << "?", "s", "o", "r", "t", "=", "&", "p", "a", "g", "e", "=", "1" >>,
           GazetaSport \o << "?", "p", "a", "g", "e", "=", "1", "#", "t", "o", "p" >> }

InitBuild ==
    /\ Unstarted(NoRequest) /\ pc = "off"
    /\ args \in [base_url : BuilderUrls, pagination_param : {Page},
                 page_number : PageNumbers, next_page : PageNumbers]
    /\ at = "off" /\ shown = 0 /\ html = NoPage /\ last_fetch = "none"
    /\ last_article = "none"
    /\ link_list = << >> /\ all_links = {} /\ page_num = 0 /\ new_links = {}
    /\ added = 0 /\ pagination_attempt = 0 /\ requested = << >> /\ clicks = 0
    /\ url_index = 0 /\ collected = << >>

\* the URL of page args.page_number is built from the listing URL
build_page ==
    /\ pc = "off" /\ at = "off" /\ requested = << >>
    /\ requested' = << _build_paginated_url(args.base_url, args.pagination_param,
                                            args.page_number) >>
    /\ page_num' = args.page_number
    /\ UNCHANGED << request, pc, paramVars, gatherVars, batchVars, callVars, endVars,
                    args, at, shown, html, last_fetch, last_article, link_list,
                    all_links,
                    new_links, added,
                    pagination_attempt, clicks, url_index, collected >>

\* the URL of page args.next_page is built from the URL built before
build_next_page ==
    /\ pc = "off" /\ at = "off" /\ Len(requested) = 1
    /\ requested' = Append(requested,
                           _build_paginated_url(requested[1], args.pagination_param,
                                                args.next_page))
    /\ page_num' = args.next_page
    /\ UNCHANGED << request, pc, paramVars, gatherVars, batchVars, callVars, endVars,
                    args, at, shown, html, last_fetch, last_article, link_list,
                    all_links,
                    new_links, added,
                    pagination_attempt, clicks, url_index, collected >>

NextBuild ==
    \/ build_page
    \/ build_next_page

SpecBuild == InitBuild /\ [][NextBuild]_vars

(***************************************************************************)
(* One collector step by step: collect_articles_from_source with           *)
(* _paginate_by_url and _paginate_inner, one action for each await.        *)
(***************************************************************************)
\* a first listing page shows 0, MaxFirst or MinPerSource articles
MaxFirst == 1
\* a further listing page, or a click, shows at most MaxNew more articles
MaxNew == 1
\* only the first MaxSkipped article fetches of a run may fail or come back
\* short
MaxSkipped == 1

\* _paginate_inner: max_pagination_attempts
max_pagination_attempts == 10

\* the limits fetch_news passes: the floor, and one that max_pages pages of
\* one new article each do not reach
CollectorLimits == {MinPerSource, max_pages + 2}

\* a button-paginated and two url-paginated sources of a category
CollectorSources == {"kun.uz", "gazeta.uz", "zamon.uz"}

CollectorArgs ==
    {[source_name |-> src[1], category_url |-> src[2], limit |-> lim] :
        src \in {s \in Range(get_sources_for_category("sport")) :
                    s[1] \in CollectorSources},
        lim \in CollectorLimits}

\* the j-th article of a site, for any j
SiteArticle(source_name, j) ==
    ArticleUrl(source_name, ((j - 1) % 9) + 1) \o Rep("b", (j - 1) \div 9)

RefQuery == << "?", "r", "e", "f", "=", "1" >>

\* how a listing page links to the j-th article: by its URL, by its URL
\* with a query and a fragment, by its path with a query, or by its URL
\* and a blank
Href(source_name, j) ==
    CASE j % 4 = 1 -> SiteArticle(source_name, j)
      [] j % 4 = 2 -> SiteArticle(source_name, j) \o RefQuery \o << "#", "c" >>
      [] j % 4 = 3 -> urlparse(SiteArticle(source_name, j)).path \o RefQuery
      [] OTHER -> SiteArticle(source_name, j) \o << " " >>

\* the same URL on the authority with or without www.
OtherAuthority(url) ==
    IF StartsWith(url, HttpsPrefix \o Www)
    THEN HttpsPrefix \o From(url, Len(HttpsPrefix \o Www) + 1)
    ELSE HttpsPrefix \o Www \o From(url, Len(HttpsPrefix) + 1)

\* the links of a listing page that lead to no article of the site: the
\* listing itself, another site, an anchor, a page of the site, and an
\* article URL on another authority
OtherLinks(a) ==
    << a.category_url,
       << "h", "t", "t", "p", "s", ":", "/", "/", "t", ".", "m", "e", "/", "s" >>,
       << "#", "t", "o", "p" >>,
       << "/", "a", "b", "o", "u", "t" >>,
       OtherAuthority(SiteArticle(a.source_name, 1)) >>

PageForms == {"html", "markdown"}

\* the listing page of source a that shows the articles first..last; in
\* the markdown form the articles are Markdown links and no href leads to
\* one
ListingPage(a, first, last, form) ==
    IF form = "html"
    THEN [hrefs |-> OtherLinks(a) \o
                    [j \in 1..(last - first + 1) |-> Href(a.source_name, first + j - 1)],
          md |-> << >>]
    ELSE [hrefs |-> OtherLinks(a),
          md |-> << a.category_url, OtherAuthority(SiteArticle(a.source_name, 1)) >> \o
                 [j \in 1..(last - first + 1) |->
                    SiteArticle(a.source_name, first + j - 1) \o RefQuery]]

CollectorIdle ==
    /\ shown = 0 /\ html = NoPage /\ last_fetch = "none"
    /\ last_article = "none"
    /\ link_list = << >> /\ all_links = {} /\ page_num = 0 /\ new_links = {}
    /\ added = 0 /\ pagination_attempt = 0 /\ requested = << >> /\ clicks = 0
    /\ url_index = 0 /\ collected = << >>

InitCollect ==
    /\ Unstarted(NoRequest) /\ pc = "off"
    /\ args \in CollectorArgs /\ at = "crawl"
    /\ CollectorIdle

aggregationVars ==
    << request, pc, paramVars, gatherVars, batchVars, callVars, endVars >>

\* line 429 and the head of the article loop: the links cut to the limit
Cut(ls) ==
    /\ link_list' = Slice(ls, args.limit)
    /\ url_index' = 1
    /\ at' = IF Slice(ls, args.limit) = << >> THEN "returned" ELSE "parse"

\* lines 467-474: the head of the loop of _paginate_by_url for page p,
\* all_links being ls; it fetches the page, or the function returns
NextPage(ls, p) ==
    IF p <= max_pages + 1 /\ Len(ls) < args.limit
    THEN /\ at' = "url" /\ page_num' = p /\ link_list' = ls
         /\ requested' = Append(requested,
                _build_paginated_url(args.category_url,
                                     get_pagination_param(args.source_name).s, p))
         /\ UNCHANGED url_index
    ELSE /\ Cut(ls)
         /\ page_num' = Min(p, max_pages + 1)
         /\ UNCHANGED requested

\* the smallest text of a set
Least(S) == CHOOSE x \in S : \A y \in S : StrLE(x, y)

RECURSIVE Ascending(_)
Ascending(S) == IF S = {} THEN << >> ELSE << Least(S) >> \o Ascending(S \ {Least(S)})

Reverse(s) == [j \in 1..Len(s) |-> s[Len(s) + 1 - j]]

\* list(S): the order of a set of str is not fixed; two orders stand for all
ListOf(S) == {Ascending(S), Reverse(Ascending(S))}

\* the same without the comparison with needed
NextAttemptRegardless(S, k) ==
    IF k < max_pagination_attempts
    THEN /\ at' = "button" /\ pagination_attempt' = k
         /\ UNCHANGED << link_list, url_index >>
    ELSE /\ \E order \in ListOf(S) : Cut(order)
         /\ pagination_attempt' = Min(k, max_pagination_attempts - 1)

\* lines 253-257: the head of the loop of _paginate_inner for attempt k,
\* all_links being S; it looks for a trigger, or the function returns
NextAttempt(S, k) ==
    IF k < max_pagination_attempts /\ Cardinality(S) < args.limit
    THEN /\ at' = "button" /\ pagination_attempt' = k
         /\ UNCHANGED << link_list, url_index >>
    ELSE /\ \E order \in ListOf(S) : Cut(order)
         /\ pagination_attempt' = Min(k, max_pagination_attempts - 1)

\* the same with a rendering session opened whatever the links found
PaginateAlways(found) ==
    IF /\ Len(found) < args.limit
       /\ get_pagination_type(args.source_name) = "url"
       /\ Truthy(get_pagination_param(args.source_name))
    THEN /\ NextPage(found, 2)
         /\ UNCHANGED << all_links, pagination_attempt >>
    ELSE /\ at' = "goto" /\ link_list' = found /\ all_links' = Range(found)
         /\ UNCHANGED << page_num, requested, url_index, pagination_attempt >>

\* lines 399-429: after the first page, with the links found on it
Paginate(found) ==
    IF /\ Len(found) < args.limit
       /\ get_pagination_type(args.source_name) = "url"
       /\ Truthy(get_pagination_param(args.source_name))
    THEN /\ NextPage(found, 2)
         /\ UNCHANGED << all_links, pagination_attempt >>
    ELSE IF /\ Len(found) < args.limit
            /\ get_pagination_type(args.source_name) = "button"
            /\ get_pagination_buttons(args.source_name) # << >>
    THEN /\ at' = "goto" /\ link_list' = found /\ all_links' = Range(found)
         /\ UNCHANGED << page_num, requested, url_index, pagination_attempt >>
    ELSE /\ Cut(found)
         /\ UNCHANGED << all_links, page_num, requested, pagination_attempt >>

\* lines 398-429: the category page arrives, showing the site's first n
\* articles
first_listing(n, form) ==
    /\ at = "crawl"
    /\ html' = ListingPage(args, 1, n, form)
    /\ shown' = n
    /\ Paginate(extract_article_links(ListingPage(args, 1, n, form),
                                      args.category_url,
                                      get_article_pattern(args.source_name)))
    /\ last_fetch' = "ok"
    /\ UNCHANGED << aggregationVars, last_article, args, new_links, added, clicks, collected >>

\* line 398 raises: both render policies failed
first_listing_raises ==
    /\ at = "crawl"
    /\ at' = "raised"
    /\ last_fetch' = "raised"
    /\ UNCHANGED << aggregationVars, last_article, args, shown, html, link_list, all_links,
                    page_num, new_links, added, pagination_attempt, requested,
                    clicks, url_index, collected >>

\* line 481-486: the links of found that all_links has not
NewOf(found, ls) == SelectSeq(found, LAMBDA u : u \notin Range(ls))

\* the same without the stop at a page that adds nothing
AddedGoesOn(found) ==
    /\ new_links' = Range(found)
    /\ added' = Len(NewOf(found, link_list))
    /\ NextPage(link_list \o NewOf(found, link_list), page_num + 1)

\* lines 476-492, with the links found on the page
Added(found) ==
    /\ new_links' = Range(found)
    /\ added' = Len(NewOf(found, link_list))
    /\ IF Len(NewOf(found, link_list)) = 0
       THEN Cut(link_list) /\ UNCHANGED << page_num, requested >>
       ELSE NextPage(link_list \o NewOf(found, link_list), page_num + 1)

\* lines 474-492: page page_num arrives; it shows the last article shown
\* before and a new ones
next_listing(a, form) ==
    /\ at = "url"
    /\ html' = ListingPage(args, Max(1, shown), shown + a, form)
    /\ shown' = shown + a
    /\ Added(extract_article_links(ListingPage(args, Max(1, shown), shown + a, form),
                                   args.category_url,
                                   get_article_pattern(args.source_name)))
    /\ last_fetch' = "ok"
    /\ UNCHANGED << aggregationVars, last_article, args, all_links, pagination_attempt, clicks,
                    collected >>

\* the same with the exception passed on to the caller
next_listing_raises_escapes ==
    /\ at = "url"
    /\ at' = "raised"
    /\ last_fetch' = "raised"
    /\ UNCHANGED << aggregationVars, last_article, args, shown, html, link_list, all_links,
                    page_num, new_links, added, pagination_attempt, requested,
                    clicks, url_index, collected >>

\* lines 477-479: the fetch of page page_num raises; the loop is left
next_listing_raises ==
    /\ at = "url"
    /\ Cut(link_list)
    /\ last_fetch' = "raised"
    /\ UNCHANGED << aggregationVars, last_article, args, shown, html, all_links, page_num,
                    new_links, added, pagination_attempt, requested, clicks,
                    collected >>

\* lines 246-253: the rendering session has loaded the listing
goto_listing ==
    /\ at = "goto"
    /\ html' = ListingPage(args, 1, shown, "html")
    /\ NextAttempt(all_links, 0)
    /\ last_fetch' = "ok"
    /\ UNCHANGED << aggregationVars, last_article, args, shown, all_links, page_num, new_links,
                    added, requested, clicks, collected >>

\* lines 248-251: page.goto raises; what was found is returned
goto_listing_raises ==
    /\ at = "goto"
    /\ \E order \in ListOf(all_links) : Cut(order)
    /\ last_fetch' = "raised"
    /\ UNCHANGED << aggregationVars, last_article, args, shown, html, all_links, page_num,
                    new_links, added, pagination_attempt, requested, clicks,
                    collected >>

\* lines 257-266, with the links of the page after the click
Merged(found) ==
    /\ new_links' = found
    /\ all_links' = all_links \cup found
    /\ NextAttempt(all_links \cup found, pagination_attempt + 1)

\* lines 257-266: a trigger is found and clicked; the page then shows a
\* more articles
click_trigger(a) ==
    /\ at = "button"
    /\ clicks' = clicks + 1
    /\ html' = ListingPage(args, 1, shown + a, "html")
    /\ shown' = shown + a
    /\ Merged(_extract_links_from_html(ListingPage(args, 1, shown + a, "html"),
                                       urlparse(args.category_url).netloc,
                                       get_article_pattern(args.source_name)))
    /\ UNCHANGED << aggregationVars, last_article, last_fetch, args, page_num, added, requested, collected >>

\* lines 257-259: _find_pagination_element returns None; the loop is left
no_trigger ==
    /\ at = "button"
    /\ \E order \in ListOf(all_links) : Cut(order)
    /\ UNCHANGED << aggregationVars, last_article, last_fetch, args, shown, html, all_links, page_num,
                    new_links, added, pagination_attempt, requested, clicks,
                    collected >>

\* lines 257-264: the rendering session raises; nothing catches it
session_raises ==
    /\ at = "button"
    /\ at' = "raised"
    /\ UNCHANGED << aggregationVars, last_article, last_fetch, args, shown, html, link_list, all_links,
                    page_num, new_links, added, pagination_attempt, requested,
                    clicks, url_index, collected >>

\* the same with the exception of the fetch passed on to the caller
ArticleTurnAborts(outcome) ==
    /\ at = "parse"
    /\ last_article' = outcome
    /\ collected' =
         IF outcome # "raises"
            /\ ~(Len(Strip(IF outcome = "short" THEN TextShort ELSE TextOk)) < MinRawText)
         THEN Append(collected,
                     [url |-> link_list[url_index],
                      raw_text |-> IF outcome = "short" THEN TextShort ELSE TextOk,
                      image_url |-> PyNone, source_name |-> args.source_name])
         ELSE collected
    /\ url_index' = url_index + 1
    /\ at' = IF outcome = "raises" THEN "raised"
             ELSE IF url_index + 1 > Len(link_list) THEN "returned" ELSE "parse"
    /\ UNCHANGED << aggregationVars, args, shown, html, last_fetch, link_list,
                    all_links, page_num, new_links, added, pagination_attempt,
                    requested, clicks >>

\* lines 434-448: one turn of the article loop; after the last the
\* collector returns
ArticleTurn(outcome) ==
    /\ at = "parse"
    /\ last_article' = outcome
    /\ collected' =
         IF outcome # "raises"
            /\ ~(Len(Strip(IF outcome = "short" THEN TextShort ELSE TextOk)) < MinRawText)
         THEN Append(collected,
                     [url |-> link_list[url_index],
                      raw_text |-> IF outcome = "short" THEN TextShort ELSE TextOk,
                      image_url |-> PyNone, source_name |-> args.source_name])
         ELSE collected
    /\ url_index' = url_index + 1
    /\ at' = IF url_index + 1 > Len(link_list) THEN "returned" ELSE "parse"
    /\ UNCHANGED << aggregationVars, args, shown, html, last_fetch, link_list,
                    all_links, page_num, new_links, added, pagination_attempt,
                    requested, clicks >>

\* a turn of the article loop in a run whose later fetches all succeed
article_page(outcome) ==
    /\ outcome # "ok" => url_index <= MaxSkipped
    /\ ArticleTurn(outcome)

FirstCounts == {0, MaxFirst, MinPerSource}

NextCollect ==
    \/ \E n \in FirstCounts, form \in PageForms : first_listing(n, form)
    \/ first_listing_raises
    \/ \E a \in 0..MaxNew, form \in PageForms : next_listing(a, form)
    \/ next_listing_raises
    \/ goto_listing
    \/ goto_listing_raises
    \/ \E a \in 0..MaxNew : click_trigger(a)
    \/ no_trigger
    \/ session_raises
    \/ \E outcome \in ParseOutcomes : article_page(outcome)

SpecCollect == InitCollect /\ [][NextCollect]_vars

(***************************************************************************)
(* The article loop of one collector whose first listing already shows as  *)
(* many links as the limit: every fetch of an article page may raise, come *)
(* back short or succeed.                                                  *)
(***************************************************************************)
InitArticles ==
    /\ InitCollect
    /\ args.limit = MinPerSource

NextArticles ==
    \/ \E form \in PageForms : first_listing(MinPerSource, form)
    \/ \E outcome \in ParseOutcomes : ArticleTurn(outcome)

SpecArticles == InitArticles /\ [][NextArticles]_vars

(***************************************************************************)
(* extract_article_links on its own: pages whose hrefs and Markdown links  *)
(* repeat an article under several spellings, and the extraction run twice *)
(* on the same page.                                                       *)
(***************************************************************************)
\* the hrefs of a page are at most this many
MaxHrefs == 3

\* the first article by its URL and a blank and by its URL with a query
\* and a fragment, the second by its path with a query, the third on
\* another authority, and the listing itself
HrefPool(a) ==
    { SiteArticle(a.source_name, 1) \o << " " >>,
      SiteArticle(a.source_name, 1) \o RefQuery \o << "#", "c" >>,
      urlparse(SiteArticle(a.source_name, 2)).path \o RefQuery,
      OtherAuthority(SiteArticle(a.source_name, 3)),
      a.category_url }

\* the Markdown links of a page: none, the first article, or the third
\* twice, the listing and the first
MdLists(a) ==
    { << >>,
      << SiteArticle(a.source_name, 1) >>,
      << SiteArticle(a.source_name, 3), a.category_url,
         SiteArticle(a.source_name, 3) \o RefQuery, SiteArticle(a.source_name, 1) >> }

ExtractPages(a) ==
    {[hrefs |-> h, md |-> m] :
        h \in UNION {[1..k -> HrefPool(a)] : k \in 0..MaxHrefs}, m \in MdLists(a)}

InitExtract ==
    /\ Unstarted(NoRequest) /\ pc = "off"
    /\ args \in {a \in CollectorArgs : a.limit = MinPerSource} /\ at = "crawl"
    /\ html \in ExtractPages(args)
    /\ shown = 0 /\ last_fetch = "none" /\ last_article = "none"
    /\ link_list = << >> /\ all_links = {} /\ page_num = 0 /\ new_links = {}
    /\ added = 0 /\ pagination_attempt = 0 /\ requested = << >> /\ clicks = 0
    /\ url_index = 0 /\ collected = << >>

\* line 205: links = extract_article_links(html, category_url, article_pattern)
extract_links ==
    /\ at = "crawl"
    /\ link_list' = extract_article_links(html, args.category_url,
                                          get_article_pattern(args.source_name))
    /\ at' = "once"
    /\ UNCHANGED << aggregationVars, args, shown, html, last_fetch, last_article,
                    all_links, page_num, new_links, added, pagination_attempt,
                    requested, clicks, url_index, collected >>

\* the same call on the same page once more
extract_links_again ==
    /\ at = "once"
    /\ link_list' = extract_article_links(html, args.category_url,
                                          get_article_pattern(args.source_name))
    /\ at' = "twice"
    /\ UNCHANGED << aggregationVars, args, shown, html, last_fetch, last_article,
                    all_links, page_num, new_links, added, pagination_attempt,
                    requested, clicks, url_index, collected >>

NextExtract ==
    \/ extract_links
    \/ extract_links_again

SpecExtract == InitExtract /\ [][NextExtract]_vars

(***************************************************************************)
(* Texts about the 100 characters of lines 95 and 436 of the two services: *)
(* the article loop of a collector on its own, and the batch on its own    *)
(* for raw articles of every such text, as process_articles_batch takes    *)
(* whatever list it is called with.                                        *)
(***************************************************************************)
\* no text, 99 characters, 99 between two blanks, 100
RawTexts == { << >>, Rep("a", MinRawText - 1), TextShort, TextOk }

\* the collectors have all returned, the one of zamon.uz with raw articles
\* of the texts `texts`; fetch_news is at the gather
InitTexts ==
    \E req \in {r \in Requests : r.category = "health" /\ r.limit = PyNone},
       texts \in [1..(MaxLinks + 1) -> RawTexts] :
      LET sources == get_sources_for_category(req.category)
          lim == Or(req.limit, PyInt(settings.default_limit)).n
          per == LimitPerSource(lim, Len(sources))
          done == [s \in 1..Len(sources) |->
                     IF sources[s][1] = "zamon.uz"
                     THEN [DoneTask(sources[s], per, Len(texts)) EXCEPT
                               !.result = [j \in 1..Len(texts) |->
                                             [RawArticle("zamon.uz", j) EXCEPT
                                                 !.raw_text = texts[j]]]]
                     ELSE DoneTask(sources[s], per, 0)]
      IN  /\ request = req
          /\ limit = lim
          /\ date_from = Or(req.date_from, PyStr(get_default_date_from)).s
          /\ date_to = Or(req.date_to, PyStr(get_default_date_to)).s
          /\ limit_per_source = per
          /\ tasks = done /\ fetched = TRUE
          /\ raw_articles = << >>
          /\ http = NoHttp /\ filtered = << >>
          /\ processed = << >> /\ i = 0 /\ pc = "gather"
          /\ attempt = 0 /\ calls = 0 /\ called = FALSE /\ delays = << >>
          /\ lastCall = NoCall /\ response = << >> /\ result = NoResult
          /\ Idle

NextTexts ==
    \/ \E form \in PageForms : first_listing(MinPerSource, form)
    \/ \E outcome \in ParseOutcomes : ArticleTurn(outcome)
    \/ gather
    \/ \E r \in Replies : _call_mistral_sync(r)
    \/ \E msg \in ErrorMsgs : _call_mistral_sync_raises(msg)
    \/ _call_mistral_with_retry
    \/ process_articles_batch

SpecTexts == (InitArticles \/ InitTexts) /\ [][NextTexts]_vars

(***************************************************************************)
(* Properties of the aggregation.                                          *)
(***************************************************************************)
Configured(category) == category \in DOMAIN CATEGORY_MAPPING

\* C2: no failure other than an unknown category aborts the aggregation:
\* whatever the sources, the article pages, the extraction calls and the
\* model's outputs do, fetch_news ends with a 200 response carrying an
\* article list, and with a 400 only for an unknown category.
C2_completes ==
    pc = "done" =>
        \/ http.status = 200
        \/ http.status = 400 /\ ~Configured(request.category)

\* C3: when the rate-limit failures go on until the failure is escalated,
\* the call has been retried 5 times, after delays of 2, 4, 8, 16 and 32
\* seconds, one before each retry.
C3_five_retries ==
    result.ex = "RetriesExhausted" =>
        /\ delays = << 2, 4, 8, 16, 32 >>
        /\ calls - 1 = 5

\* C4: a call that fails with a rate-limit signal exactly 3 times and then
\* succeeds has been invoked 4 times, the delays before the 3 retries were
\* 2, 4 and 8 seconds, strictly increasing, and the text of the successful
\* invocation is what the caller gets.
C4_three_retries ==
    (lastCall.kind = "ok" /\ Len(delays) = 3) =>
        /\ calls = 4
        /\ delays = << 2, 4, 8 >>
        /\ \A k \in 1..2 : delays[k] < delays[k + 1]
        /\ response = lastCall.text

C4_witness ==
    /\ lastCall.kind = "ok" /\ Len(delays) = 3
    /\ response \in Replies /\ ~result.isNone

\* C5: once the collectors are gathered, a source whose collector raised
\* has no raw article in the batch's input, and the raw articles of every
\* source whose collector completed are all there, in the order the
\* collector produced them.
BySource(raws, name) == SelectSeq(raws, LAMBDA a : a.source_name = name)

Gathered == pc \in {"call", "backoff", "pace"} \/ (pc = "done" /\ http.status # 400)

C5_isolation ==
    Gathered =>
        \A s \in 1..Len(tasks) :
            /\ tasks[s].st \in {"done", "raised"}
            /\ tasks[s].st = "raised" =>
                   BySource(raw_articles, tasks[s].source_name) = << >>
            /\ tasks[s].st = "done" =>
                   BySource(raw_articles, tasks[s].source_name) = tasks[s].result

C5_witness ==
    /\ pc = "call" /\ i = 1
    /\ \E s \in 1..Len(tasks) : tasks[s].st = "raised"
    /\ \E s \in 1..Len(tasks) : tasks[s].st = "done" /\ tasks[s].result # << >>
    /\ raw_articles # << >>

\* C6: for a known category and any integer limit, the response carries at
\* most the requested number of articles (none for a limit below one), at
\* most the default limit when the request gives no limit.
Requested == IF request.limit = PyNone THEN default_limit ELSE Max(0, request.limit.n)

C6_at_most_limit ==
    (pc = "done" /\ http.status = 200 /\ Configured(request.category)) =>
        Len(http.articles) <= Requested

\* C8: a request for a category that is not configured ends with a 400
\* whose detail lists the valid categories, and nothing was scheduled: no
\* collector exists, no page was fetched, no extraction call was made.
NoWork == tasks = << >> /\ ~fetched /\ ~called

C8_rejected ==
    /\ pc = "start" => NoWork /\ http = NoHttp
    /\ (pc # "start" /\ ~Configured(request.category)) =>
           /\ pc = "done"
           /\ http.status = 400
           /\ http.detail = << "global", "business", "sport", "technology",
                               "health", "entertainment", "science", "education" >>
           /\ http.articles = << >>
           /\ NoWork

C8_witness ==
    /\ request.category = "weather" /\ pc = "done" /\ http.status = 400

\* C9: a failure of the extraction call that is not a rate limit is not
\* retried: right after it the call is over, no backoff delay was begun for
\* it, the article has no NormalizedArticle, nothing escaped the batch, and
\* the batch's next step takes the next raw article (or returns after the
\* last) with the normalized articles untouched.
RateLimitClass(msg) == msg \in { << "4", "2", "9" >>, << "R", "A", "T", "E", "_", "L", "I", "M", "I", "T" >> }

OtherFailure == lastCall.kind = "error" /\ ~RateLimitClass(lastCall.msg)

BatchGoesOn ==
    /\ processed' = processed
    /\ raw_articles' = raw_articles
    /\ IF i < Len(raw_articles)
       THEN i' = i + 1 /\ pc' = "call" /\ calls' = 0 /\ http' = http
       ELSE pc' = "done" /\ filtered' = _filter_by_date(processed, date_from, date_to).out

C9_not_retried ==
    /\ [](OtherFailure =>
            /\ pc = "pace"
            /\ Len(delays) = calls - 1
            /\ result.isNone
            /\ http = NoHttp)
    /\ [][OtherFailure => BatchGoesOn]_vars
    /\ [][(pc = "call" /\ lastCall'.kind = "error" /\ ~RateLimitClass(lastCall'.msg))
            => (calls' = calls + 1 /\ delays' = delays /\ processed' = processed)]_vars

C9_witness ==
    /\ OtherFailure /\ calls = 1 /\ delays = << >>
    /\ i = 1 /\ Len(raw_articles) = 2

\* C10: when the rate-limit failures last to the retry ceiling, the loop
\* ends: the article has no NormalizedArticle, nothing escaped the batch,
\* the normalized articles are untouched, and the batch's next step takes
\* the next raw article (or returns after the last).
Exhausted == result.ex = "RetriesExhausted"

C10_article_level ==
    /\ [](Exhausted =>
            /\ pc = "pace"
            /\ calls = max_retries
            /\ result.isNone
            /\ http = NoHttp)
    /\ [][Exhausted => BatchGoesOn]_vars
    /\ [][(Exhausted' /\ ~Exhausted) => processed' = processed]_vars

C10_witness ==
    /\ Exhausted /\ i = 2 /\ processed # << >>

\* C1: every article the normalization returns has a content of at most
\* 1500 characters, and a reply whose content is longer than 1500 is not
\* rejected: its article carries the first 1497 characters of that content
\* followed by the 3-character marker "...".
ReplyContent == SelectSeq(response, LAMBDA tok : tok.k = "doc")[1].doc.content.s

C1_content_cut ==
    /\ \A k \in 1..Len(processed) : Len(processed[k].content.s) <= 1500
    /\ \A k \in 1..Len(http.articles) : Len(http.articles[k].content.s) <= 1500
    /\ ~result.isNone => Len(result.d.content.s) <= 1500
    /\ (lastCall.kind = "ok" /\ Len(ReplyContent) > 1500) =>
           /\ ~result.isNone
           /\ result.d.content.s = SubSeq(ReplyContent, 1, 1497) \o << ".", ".", "." >>
           /\ processed # << >> /\ processed[Len(processed)] = result.d
    /\ (lastCall.kind = "ok" /\ Len(ReplyContent) \in 50..1500) =>
           ~result.isNone /\ result.d.content.s = ReplyContent

C1_witness ==
    /\ lastCall.kind = "ok" /\ Len(ReplyContent) = 1501
    /\ ~result.isNone /\ Len(result.d.content.s) = 1500
    /\ result.d.content.s[1497] = "a" /\ result.d.content.s[1498] = "."

\* C7: the result filter keeps exactly the articles that have no
\* publication date or whose date lies, as a calendar date, between
\* date_from and date_to with both ends included, and keeps them in the
\* order of its input.
DigitValue(c) == CHOOSE n \in 0..9 : DigitChar(n) = c

\* the calendar day of "YYYY-MM-DD", as the number YYYYMMDD
IsoNum(d) ==
    LET v(j) == DigitValue(d[j])
    IN  (v(1) * 1000 + v(2) * 100 + v(3) * 10 + v(4)) * 10000
        + (v(6) * 10 + v(7)) * 100 + v(9) * 10 + v(10)

InRange(a) ==
    \/ a.date_of_publication = PyNone
    \/ /\ IsoNum(date_from) <= IsoNum(a.date_of_publication.s)
       /\ IsoNum(a.date_of_publication.s) <= IsoNum(date_to)

C7_filter ==
    pc = "done" =>
        /\ http.status = 200
        /\ filtered = SelectSeq(processed, InRange)
        /\ http.articles = Slice(SelectSeq(processed, InRange), limit)

C7_witness ==
    /\ pc = "done" /\ request.date_from = PyNone /\ request.limit = PyNone
    /\ Len(processed) = 2
    /\ processed[1].date_of_publication = PyStr(<< "2", "0", "2", "5", "-", "0", "1", "-", "1", "5" >>)
    /\ processed[2].date_of_publication = PyNone
    /\ filtered = << processed[2] >>

\* C11: when the collector of one source never completes, the aggregation
\* still returns in the end: fetch_news responds, with the articles of the
\* other sources.
Hung == \E s \in 1..Len(tasks) : tasks[s].st = "hung"

C11_returns == Hung ~> (pc = "done" /\ http.status = 200)

\* C13: when the model gives no date, the article's date is the date of
\* the first /YYYY/MM/DD/ segment of the source URL, written YYYY-MM-DD, or
\* null when the URL has no such segment; when the model gives a date, the
\* article keeps that date whatever the URL holds.
UrlDate(url) ==
    CASE url = << "h", "t", "t", "p", "s", ":", "/", "/", "z", "a", "m", "o", "n", ".", "u", "z", "/", "d", "e", "t", "a", "i", "l", "/", "2", "0", "2", "6", "/", "0", "1", "/", "3", "1", "/", "a" >> -> PyStr(<< "2", "0", "2", "6", "-", "0", "1", "-", "3", "1" >>)
      [] url = << "h", "t", "t", "p", "s", ":", "/", "/", "z", "a", "m", "o", "n", ".", "u", "z", "/", "d", "e", "t", "a", "i", "l", "/", "2", "0", "2", "5", "/", "0", "1", "/", "2", "1", "/", "2", "0", "2", "4", "/", "1", "2", "/", "3", "1", "/", "a" >> -> PyStr(<< "2", "0", "2", "5", "-", "0", "1", "-", "2", "1" >>)
      [] OTHER -> PyNone

ReplyDoc == SelectSeq(response, LAMBDA tok : tok.k = "doc")[1].doc

C13_backfill ==
    lastCall.kind = "ok" =>
        /\ ~result.isNone
        /\ result.d.source_url = raw_articles[i].url
        /\ IF ReplyDoc.date_of_publication.t \in {"null", "absent"}
           THEN result.d.date_of_publication = UrlDate(raw_articles[i].url)
           ELSE result.d.date_of_publication = ReplyDoc.date_of_publication

C13_witness ==
    /\ lastCall.kind = "ok"
    /\ ReplyDoc.date_of_publication = PyNone
    /\ raw_articles[i].url = << "h", "t", "t", "p", "s", ":", "/", "/", "z", "a", "m", "o", "n", ".", "u", "z", "/", "d", "e", "t", "a", "i", "l", "/", "2", "0", "2", "5", "/", "0", "1", "/", "2", "1", "/", "2", "0", "2", "4", "/", "1", "2", "/", "3", "1", "/", "a" >>
    /\ result.d.date_of_publication = PyStr(<< "2", "0", "2", "5", "-", "0", "1", "-", "2", "1" >>)

\* C14: the pacing sleep follows the processing of every raw article,
\* however it ended (normalized, rejected, failed), and the batch turns to
\* the next raw article only from that sleep.
InCall == pc \in {"call", "backoff"}

C14_paced ==
    [][/\ (InCall /\ pc' \notin {"call", "backoff"}) => pc' = "pace"
       /\ (i >= 1 /\ i' # i) => pc = "pace"]_vars

\* C15: every collector started for a request is given the same per-source
\* limit, max(5, (requested_limit * 2) / source_count) in integer division,
\* the requested limit being the request's, or the default when it has none.
RequestedLimit == IF request.limit = PyNone THEN default_limit ELSE request.limit.n

C15_per_source ==
    \A s \in 1..Len(tasks) :
        tasks[s].limit = Max(5, (RequestedLimit * 2) \div Len(tasks))


\* the field of a query that carries parameter param
Carries(field, param) == SplitFirst(field, "=") = param

\* a query with parameter param set to n: its field replaced where there is
\* one, appended where there is none, every other field as it was
QueryWith(fields, param, n) ==
    IF \E k \in 1..Len(fields) : Carries(fields[k], param)
    THEN JoinAmp([k \in 1..Len(fields) |->
                    IF Carries(fields[k], param)
                    THEN param \o << "=" >> \o str(n) ELSE fields[k]])
    ELSE JoinAmp(Append(fields, param \o << "=" >> \o str(n)))

\* the listing URL with only its parameter param changed to n
OnlyPageChanged(url, param, n) ==
    SplitFirst(SplitFirst(url, "#"), "?") \o << "?" >>
    \o QueryWith(IF AfterFirst(SplitFirst(url, "#"), "?") = << >> THEN << >>
                 ELSE Split(AfterFirst(SplitFirst(url, "#"), "?"), "&"), param, n)
    \o (IF Find(url, "#") = 0 THEN << >> ELSE From(url, Find(url, "#")))

\* C16: the URL built for a page is the listing URL with the pagination
\* parameter set to the page number (replaced, or appended when absent) and
\* nothing else changed; the URL built for page m from a URL built for page
\* n is the URL built for page m from the listing URL
C16_builder ==
    /\ Len(requested) >= 1 =>
          requested[1] = OnlyPageChanged(args.base_url, args.pagination_param,
                                         args.page_number)
    /\ Len(requested) = 2 =>
          requested[2] = _build_paginated_url(args.base_url, args.pagination_param,
                                              args.next_page)

(***************************************************************************)
(* Properties of one collector.                                            *)
(***************************************************************************)
\* every link the collector holds
LinkSet == Range(link_list) \cup all_links \cup new_links

\* the text is the URL of an article the site has listed, with or without
\* a query
ListedArticle(u) ==
    \E j \in 1..shown : SplitFirst(u, "?") = SiteArticle(args.source_name, j)

\* C12: every link found, on the first listing page, by URL-parameter
\* pagination or by interactive pagination, has the authority of the
\* category URL and is the URL of an article
C12_links ==
    \A u \in LinkSet :
        /\ urlparse(u).netloc = urlparse(args.category_url).netloc
        /\ ListedArticle(u)

\* interactive pagination has merged the links of a page it clicked for
\* into those of the first page
C12_witness ==
    /\ clicks >= 1 /\ new_links # {} /\ link_list # << >>
    /\ Cardinality(all_links) >= 2

\* C17: URL-parameter pagination fetches the listing pages 2, 3, 4, ... in
\* this order, at most 10 of them, and a fetch is made only while the links
\* are fewer than needed and the page fetched before it added a link
C17_url_pages ==
    /\ Len(requested) <= 10
    /\ \A k \in 1..Len(requested) :
          requested[k] = OnlyPageChanged(args.category_url, Page, k + 1)
    /\ at = "url" =>
          /\ Len(link_list) < args.limit
          /\ Len(requested) >= 2 => added > 0

\* ten pages have been fetched and the pagination is over
C17_witness ==
    /\ Len(requested) = 10 /\ last_fetch = "ok"
    /\ at \in {"parse", "returned"}

\* C18: when the fetch of a listing page fails during URL-parameter
\* pagination, no further page is fetched, the links found so far are kept
\* and the collector goes on with the article behind the first of them
C18_page_failure ==
    /\ [](last_fetch = "raised" /\ requested # << >> => at \in {"parse", "returned"})
    /\ [][(at = "url" /\ last_fetch' = "raised") =>
            /\ link_list' = link_list
            /\ requested' = requested
            /\ url_index' = 1 /\ collected' = << >>
            /\ at' = IF link_list = << >> THEN "returned" ELSE "parse"]_vars

\* the fetch of a later page failed; the collector is at the articles of
\* the links found before
C18_witness ==
    /\ last_fetch = "raised" /\ Len(requested) >= 2
    /\ at = "parse" /\ Len(link_list) >= 2

\* the href with its fragment cut and, when it is a path, made absolute on
\* the authority of the category URL: the link with its query
WithQuery(href) ==
    IF StartsWith(Strip(href), << "/" >>)
    THEN HttpsPrefix \o urlparse(args.category_url).netloc \o SplitFirst(Strip(href), "#")
    ELSE SplitFirst(Strip(href), "#")

\* C19: the links of the first pass over the category page carry no query;
\* a link extracted in a pagination pass is a link of the page with its
\* query
C19_query_kept ==
    /\ (requested = << >> /\ clicks = 0) =>
          \A u \in Range(link_list) : Find(u, "?") = 0
    /\ \A u \in new_links :
          \E h \in Range(html.hrefs) \cup Range(html.md) : u = WithQuery(h)

\* C20: interactive pagination clicks a trigger at most 10 times, only
\* while it looks for one and the links are fewer than needed, and after
\* each click the links of the page are merged into the link set
C20_interactive ==
    /\ [](clicks <= 10)
    /\ [][clicks' # clicks =>
            /\ clicks' = clicks + 1
            /\ at = "button"
            /\ Cardinality(all_links) < args.limit
            /\ all_links' = all_links \cup
                  _extract_links_from_html(html', urlparse(args.category_url).netloc,
                                           get_article_pattern(args.source_name))]_vars
    /\ [][(at \notin {"goto", "button"}) => at' # "button"]_vars

\* the trigger has been clicked ten times and the pagination is over
C20_witness ==
    /\ clicks = 10 /\ at \in {"parse", "returned"}
    /\ Cardinality(all_links) >= 2

\* the source is configured with a way to paginate
HasStrategy(source_name) ==
    \/ get_pagination_type(source_name) = "url"
       /\ Truthy(get_pagination_param(source_name))
    \/ get_pagination_type(source_name) = "button"
       /\ get_pagination_buttons(source_name) # << >>

\* the links to the first n articles of the site, in page order
ListedLinks(n) == [j \in 1..n |-> SiteArticle(args.source_name, j)]

ArticlesOf(ls, kept) ==
    [j \in 1..Len(SelectSeq(ls, LAMBDA u : u \in kept)) |->
        [url |-> SelectSeq(ls, LAMBDA u : u \in kept)[j], raw_text |-> TextOk,
         image_url |-> PyNone, source_name |-> args.source_name]]

\* C22: a fetch of an article page that raises is skipped and the
\* collection goes on: the turn adds nothing, the loop moves to the next url
\* of the cut list and ends only after the last one, a fetch that succeeds
\* appends its article, and what is returned is, in order, the articles of
\* the urls fetched with success, those before and after a failure alike
C22_skipped ==
    /\ [][(at = "parse" /\ last_article' = "raises") =>
            (/\ collected' = collected
             /\ url_index' = url_index + 1
             /\ link_list' = link_list
             /\ at' = IF url_index < Len(link_list) THEN "parse" ELSE "returned")]_vars
    /\ [][(at = "parse" /\ last_article' = "ok") =>
            (/\ collected' = Append(collected,
                                   [url |-> link_list[url_index], raw_text |-> TextOk,
                                    image_url |-> PyNone,
                                    source_name |-> args.source_name])
             /\ url_index' = url_index + 1)]_vars
    /\ [](at = "returned" /\ last_fetch = "ok" => url_index = Len(link_list) + 1)
    /\ [](at \in {"parse", "returned"} /\ url_index >= 1 =>
            \E kept \in SUBSET Range(SubSeq(link_list, 1, url_index - 1)) :
               collected = ArticlesOf(link_list, kept))
    /\ [](at # "raised" \/ last_article = "none")

C22_witness ==
    /\ at = "returned" /\ last_article = "ok"
    /\ Len(link_list) = MinPerSource /\ Len(collected) = MinPerSource - 1
    /\ collected[1].url = link_list[1]
    /\ collected[2].url = link_list[3]
    /\ collected[MinPerSource - 1].url = link_list[MinPerSource]

\* C23: the extraction model is never invoked for an article whose text has
\* fewer than 100 characters: a collector returns no raw article of such a
\* text (the turn of the article loop that fetched it adds nothing), and
\* the batch, given one all the same, has None for it with no call made and
\* no request built, and goes on to the next
C23_short_texts ==
    /\ [](\A j \in 1..Len(collected) : ~(Len(collected[j].raw_text) < MinRawText))
    /\ [][(at = "parse" /\ last_article' = "short") => collected' = collected]_vars
    /\ [](pc \in {"call", "backoff"} => ~(Len(raw_articles[i].raw_text) < MinRawText))
    /\ [][calls' > calls => ~(Len(raw_articles[i'].raw_text) < MinRawText)]_vars
    /\ [](pc = "pace" /\ Len(raw_articles[i].raw_text) < MinRawText =>
            result = NoResult /\ calls = 0 /\ lastCall = NoCall)
    /\ [](\A k \in 1..Len(processed) :
            \E j \in 1..Len(raw_articles) :
               /\ processed[k].source_url = raw_articles[j].url
               /\ ~(Len(raw_articles[j].raw_text) < MinRawText))

C23_witness ==
    /\ pc = "pace" /\ i = 2 /\ Len(raw_articles) = 2
    /\ raw_articles[1].raw_text = TextOk /\ Len(processed) = 1
    /\ raw_articles[2].raw_text = Rep("a", MinRawText - 1)
    /\ result = NoResult /\ calls = 0 /\ lastCall = NoCall

\* the reply r is one JSON object between blanks, inside a fence or not
OneObject(r) ==
    \E doc \in {r[j] : j \in 1..Len(r)} :
       /\ doc.k = "doc" /\ doc.doc.kind = "object"
       /\ \/ StripWs(r) = << doc >>
          \/ \E open \in {Fence, FenceJson} :
                StripWs(r) \in {<< open, doc, Fence >>, << open, Ws, doc, Fence >>,
                                << open, doc, Ws, Fence >>, << open, Ws, doc, Ws, Fence >>}

\* the object of such a reply
ObjectOf(r) == (CHOOSE tok \in {r[j] : j \in 1..Len(r)} : tok.k = "doc").doc

\* the reply has its field: a text that is not empty
HasText(v) == v.t = "str" /\ v.s # << >>

\* C24: the normalization gives no article when the reply, its fence taken
\* off, is no JSON object, has no title or no content, or has a content of
\* fewer than 50 characters once trimmed; so every normalized article has a
\* title that is not empty and a content of at least 50 characters once
\* trimmed
C24_rejects ==
    pc \in {"pace", "done"} /\ lastCall.kind = "ok" =>
       /\ (\/ ~OneObject(response)
           \/ ~HasText(ObjectOf(response).title)
           \/ ~HasText(ObjectOf(response).content)
           \/ Len(Strip(ObjectOf(response).content.s)) < MinContent)
          => result.isNone /\ processed = << >>
       /\ \A k \in 1..Len(processed) :
             /\ HasText(processed[k].title)
             /\ processed[k].content.t = "str"
             /\ ~(Len(Strip(processed[k].content.s)) < MinContent)

\* C25: the batch of one aggregation is sequential: it works on one raw
\* article at a time, every collector having ended; each invocation is one
\* more call for the raw article at hand, made from the call position; and
\* the batch moves to the next raw article only from the gather or from the
\* pacing sleep that ends the previous one, never from a call or a backoff,
\* and starts its call count anew
C25_sequential ==
    /\ [](pc \in {"call", "backoff", "pace"} =>
            /\ i \in 1..Len(raw_articles)
            /\ \A s \in 1..Len(tasks) : tasks[s].st \in {"done", "raised"}
            /\ Len(processed) <= i
            /\ (pc # "pace" => Len(processed) < i))
    /\ [][i' # i =>
            (/\ i' = i + 1
             /\ pc \in {"gather", "pace"}
             /\ calls' = 0 /\ attempt' = 0 /\ delays' = << >>
             /\ processed' = processed)]_vars
    /\ [][calls' > calls =>
            (/\ calls' = calls + 1 /\ pc = "call" /\ i' = i
             /\ Len(processed') <= Len(processed) + 1)]_vars
    /\ [][(pc = "backoff" /\ pc' # "backoff") =>
            (i' = i /\ attempt' = attempt + 1 /\ pc' \in {"call", "pace"})]_vars

C25_witness ==
    /\ pc = "backoff" /\ i = 2 /\ attempt = 1 /\ calls = 2
    /\ Len(processed) = 1

\* the results of the collectors s..Len(tasks) that returned, one after the
\* other
RECURSIVE ResultsFrom(_)
ResultsFrom(s) ==
    IF s > Len(tasks) THEN << >>
    ELSE (IF tasks[s].st = "done" THEN tasks[s].result ELSE << >>) \o ResultsFrom(s + 1)

Target(link) ==
    LET cut == SplitFirst(SplitFirst(Strip(link), "#"), "?")
    IN  IF StartsWith(cut, << "/" >>)
        THEN HttpsPrefix \o urlparse(args.category_url).netloc \o cut
        ELSE cut

\* the URL is an article of the listing's site
ArticleOfSite(url) ==
    /\ StartsWith(url, Http)
    /\ urlparse(url).netloc = urlparse(args.category_url).netloc
    /\ _is_article_url(url, get_article_pattern(args.source_name))

\* the articles of the site among the targets of the links, each at the
\* place of its first link
RECURSIVE Firsts(_)
Firsts(found) ==
    IF found = << >> THEN << >>
    ELSE LET last == Target(found[Len(found)])
             before == ButLast(found)
         IN  IF ArticleOfSite(last) /\ \A j \in 1..Len(before) : Target(before[j]) # last
             THEN Append(Firsts(before), last)
             ELSE Firsts(before)

\* C27: the links extracted from a page have no duplicates and stand in the
\* order in which the page first links to each, and extracting from the
\* same page with the same listing URL and shape again gives the same list
C27_ordered ==
    /\ [](at \in {"once", "twice"} =>
            /\ \A j, k \in 1..Len(link_list) : j # k => link_list[j] # link_list[k]
            /\ link_list \in {Firsts(html.hrefs), Firsts(html.md)})
    /\ [][(at = "once" /\ at' = "twice") => link_list' = link_list]_vars

C27_witness ==
    /\ at = "twice" /\ Len(html.hrefs) = MaxHrefs
    /\ Target(html.hrefs[1]) = Target(html.hrefs[MaxHrefs])
    /\ Len(link_list) = 2 /\ link_list[1] = Target(html.hrefs[1])
    /\ link_list[2] = Target(html.hrefs[2])

\* C28: the Markdown links are scanned only when the hrefs gave no link:
\* when an href of the page leads to an article of the site, the result is
\* the articles the hrefs lead to and holds no link the page has in
\* Markdown only; when none does, the result is the articles the Markdown
\* links lead to
C28_fallback ==
    at \in {"once", "twice"} =>
        IF \E j \in 1..Len(html.hrefs) : ArticleOfSite(Target(html.hrefs[j]))
        THEN /\ link_list = Firsts(html.hrefs)
             /\ \A u \in Range(link_list) :
                   \E j \in 1..Len(html.hrefs) : Target(html.hrefs[j]) = u
        ELSE link_list = Firsts(html.md)

C28_witness ==
    /\ at = "once" /\ link_list # << >>
    /\ \E j \in 1..Len(html.md) :
          /\ ArticleOfSite(Target(html.md[j]))
          /\ Target(html.md[j]) \notin Range(link_list)
          /\ \A k \in 1..Len(html.hrefs) : Target(html.hrefs[k]) # Target(html.md[j])

\* C29: while a collector paginates, by URL or in a rendering session, the
\* list it goes on with begins with the links it had, in their order, the
\* links the pagination found behind them; so the first page's links stay
\* ahead when the list is cut to the limit
C29_initial_first ==
    [][(at \in {"page", "goto", "button"}) =>
         (/\ Len(link_list') >= Min(Len(link_list), args.limit)
          /\ Prefix(link_list', Min(Len(link_list), args.limit))
                = Prefix(link_list, args.limit))]_vars

=========================================================================
